---- MODULE Spec2Model ----
(***************************************************************************)
(* Verification model of the code-search MCP server: the repository        *)
(* registry (core/identity/repo-registry.ts), the snapshot store           *)
(* (mcp/snapshot.ts), the index_codebase gate, and the HTTP front end      *)
(* (auth.ts, rate-limit.ts, http-transport.ts, server.ts, cli.ts).         *)
(***************************************************************************)
EXTENDS Integers, Sequences, FiniteSets, TLC

VARIABLES
    remote,             \* git config of each repository on disk: its origin URL or NoRemote
    now,                \* the wall clock (Date.now()), in clock steps
    exists,             \* the paths that exist on disk (fs.existsSync)
    git,                \* what the git subprocess finds in each checkout: the root commit
                        \* of its HEAD, and the git commands that fail or time out there
    repositories,       \* RepoRegistry.repositories: canonicalId -> RepoRecord
    pathToCanonicalId,  \* RepoRegistry.pathToCanonicalId: path -> canonicalId
    shared,             \* canonical IDs whose registry record still holds the very
                        \* knownPaths and worktrees arrays of the snapshot store
    phase,              \* "new" before the server object is constructed, then "running"
    file,               \* the snapshot file on disk, None if there is none
    snapRepositories,       \* SnapshotManager.repositories: canonicalId -> RepoSnapshot
    snapPathToCanonicalId,  \* SnapshotManager.pathToCanonicalId
    indexedCodebases,   \* SnapshotManager.indexedCodebases (legacy view)
    indexingCodebases,  \* SnapshotManager.indexingCodebases: path -> percentage
    codebaseFileCount,  \* SnapshotManager.codebaseFileCount: path -> files
    codebaseInfoMap,    \* SnapshotManager.codebaseInfoMap: path -> CodebaseInfo
    pc,                 \* where each index_codebase call stands
    req,                \* the arguments of each index_codebase call in progress
    lockHolder,         \* per canonical ID: the call that holds its lock, or Free
    collections,        \* the collections that exist in the vector store
    calls,              \* the tool calls accepted so far
    mappings,           \* CollectionMigrator.state.mappings
    migrationFile,      \* the mappings in ~/.context/collection-migration.json, if written
    search,             \* the search_all call: its limit, what each collection holds,
                        \* the collections that answered, in that order, and its result
    proc,               \* the process: "starting", "running" or "exited"
    exitCode,           \* the exit status once exited
    listening,          \* the HTTP server is listening
    stdio,              \* the stdio transport is connected
    cfg,                \* command line and environment of the process
    limits,             \* RateLimiter.limits: client IP -> RateLimitEntry
    sessions,           \* HttpTransport.transports: the session IDs in use
    issued,             \* the session IDs generated so far, oldest first
    serverOf,           \* per open session: the MCP server instance its transport is connected to
    shutdowns,          \* the gracefulShutdown calls in progress: where each one waits
    last                \* the call that ran last and what it returned

envVars == <<remote, now, exists, git>>
registryVars == <<repositories, pathToCanonicalId>>
legacyVars == <<indexedCodebases, indexingCodebases, codebaseFileCount, codebaseInfoMap>>
storeVars == <<file, snapRepositories, snapPathToCanonicalId, legacyVars>>
migratorVars == <<mappings, migrationFile>>
handlerVars == <<pc, req, lockHolder, collections, calls, migratorVars, search>>
httpVars == <<proc, exitCode, listening, stdio, cfg, limits, sessions, issued, serverOf,
             shutdowns>>
vars == <<envVars, registryVars, shared, phase, storeVars, handlerVars, httpVars, last>>

(***************************************************************************)
(* Optional values: undefined is <<>>, a present value v is <<v>>.         *)
(***************************************************************************)
None == <<>>
Some(v) == <<v>>
IsSome(o) == o # <<>>
Val(o) == o[1]

\* Array.prototype.includes
Includes(seq, x) == \E i \in 1..Len(seq) : seq[i] = x
\* Array.prototype.filter(p => p !== x)
Without(seq, x) == SelectSeq(seq, LAMBDA y : y # x)
\* Array.prototype.push, guarded by !includes
PushNew(seq, x) == IF Includes(seq, x) THEN seq ELSE Append(seq, x)
Elems(seq) == {seq[i] : i \in 1..Len(seq)}

(***************************************************************************)
(* The filesystem.  /a/main is a repository, /a/feat a git worktree of it, *)
(* /b/clone an independent clone of the same project.                      *)
(***************************************************************************)
Paths == {"/a/main", "/a/feat", "/b/clone"}
\* what callers pass: a path as typed, possibly with a trailing slash
RawPaths == Paths \cup {"/a/feat/"}
Repos == {"R1", "R2"}
\* a remote URL is the sequence of its lexical pieces; no origin is the empty output
Schemes == {"ssh://", "https://", "http://", "git://"}
NoRemote == <<>>
OriginUrl == <<"git", "@", "github.com", ":", "x", "/", "y", ".git">>
Remotes == {NoRemote, OriginUrl}
RootCommit == "c0"
\* git rev-list in a repository without commits prints nothing
NoCommits == ""
RootShas == {NoCommits, RootCommit, "c1"}
GitCommands == {"config", "rev-list"}
\* every checkout on the same history, every git command succeeding
GitHealthy == [root |-> [p \in Paths |-> RootCommit], fails |-> [p \in Paths |-> {}]]

\* path.resolve
PathResolve(raw) == IF raw = "/a/feat/" THEN "/a/feat" ELSE raw
\* detectGitRepo: the repository a path belongs to, and whether it is a worktree
RepoOf(p) == IF p = "/b/clone" THEN "R2" ELSE "R1"
IsWorktreePath(p) == p = "/a/feat"
\* path.basename
Basename(p) == CASE p = "/a/main" -> "main" [] p = "/a/feat" -> "feat" [] OTHER -> "clone"

FirstIndex(s, t) ==
    IF \E i \in 1..Len(s) : s[i] = t
    THEN CHOOSE i \in 1..Len(s) : s[i] = t /\ \A j \in 1..(i - 1) : s[j] # t
    ELSE 0
LastIndex(s, t) ==
    IF \E i \in 1..Len(s) : s[i] = t
    THEN CHOOSE i \in 1..Len(s) : s[i] = t /\ \A j \in (i + 1)..Len(s) : s[j] # t
    ELSE 0
After(s, i) == SubSeq(s, i + 1, Len(s))
RECURSIVE Join(_)
Join(s) == IF s = <<>> THEN "" ELSE Head(s) \o Join(Tail(s))
\* String.prototype.trim
RECURSIVE TrimUrl(_)
TrimUrl(u) ==
    IF u # <<>> /\ Head(u) = " " THEN TrimUrl(Tail(u))
    ELSE IF u # <<>> /\ u[Len(u)] = " " THEN TrimUrl(SubSeq(u, 1, Len(u) - 1))
    ELSE u
\* path.replace(/\.git$/, '')
StripDotGit(path) ==
    IF path # <<>> /\ path[Len(path)] = ".git" THEN SubSeq(path, 1, Len(path) - 1) ELSE path
\* /^git@([^:]+):(.+)$/ , c the place of the first colon
SshMatchAt(u, c) ==
    IF Len(u) >= 2 /\ u[1] = "git" /\ u[2] = "@" /\ c > 3 /\ Len(u) > c
    THEN Some([host |-> SubSeq(u, 3, c - 1), path |-> After(u, c)])
    ELSE None
SshMatch(u) == SshMatchAt(u, FirstIndex(u, ":"))
\* ([^/]+)\/(.+)$ , s the place of the first slash
HostPathAt(r, s) ==
    IF s > 1 /\ Len(r) > s
    THEN Some([host |-> SubSeq(r, 1, s - 1), path |-> After(r, s)])
    ELSE None
HostPath(r) == HostPathAt(r, FirstIndex(r, "/"))
\* (?:[^@]+@)?([^/]+)\/(.+)$ , a the place of the first @: the credential
\* group is taken when what follows it still has a host and a path
AfterCredentials(r, a, withGroup) ==
    IF a > 1 /\ IsSome(withGroup) THEN withGroup ELSE HostPath(r)
\* /^(?:ssh|https?|git):\/\/([^/]+)\/(.+)$/ : a pattern without the credential group
UrlMatchKeepsCredentials(u) ==
    IF u = <<>> \/ Head(u) \notin Schemes THEN None ELSE HostPath(Tail(u))
\* /^(?:ssh|https?|git):\/\/(?:[^@]+@)?([^/]+)\/(.+)$/
UrlMatch(u) ==
    IF u = <<>> \/ Head(u) \notin Schemes THEN None
    ELSE AfterCredentials(Tail(u), FirstIndex(Tail(u), "@"),
                          HostPath(After(Tail(u), FirstIndex(Tail(u), "@"))))
\* `${host}/${path}` with the .git suffix of the path removed
HostSlashPath(match) == match.host \o <<"/">> \o StripDotGit(match.path)
\* the branches of normalizeGitUrl: the SSH pattern first, then the URL pattern
PiecesOf(sshMatch, urlMatch) ==
    IF IsSome(sshMatch) THEN HostSlashPath(Val(sshMatch))
    ELSE IF IsSome(urlMatch) THEN HostSlashPath(Val(urlMatch))
    ELSE <<>>
\* normalizeGitUrl before the pieces are joined; <<>> where it returns null
NormalizedPieces(u) == PiecesOf(SshMatch(TrimUrl(u)), UrlMatch(TrimUrl(u)))
NullOrJoined(pieces) == IF pieces = <<>> THEN None ELSE Some(Join(pieces))
\* normalizeGitUrl
NormalizeGitUrl(u) == NullOrJoined(NormalizedPieces(u))
\* parts[parts.length - 1] || remoteUrl
LastPartOr(lastPart, pieces) == IF lastPart = <<>> THEN Join(pieces) ELSE Join(lastPart)
LastPart(pieces) == LastPartOr(After(pieces, LastIndex(pieces, "/")), pieces)
\* extractDisplayName of a normalized URL
ExtractDisplayName(u) == LastPart(NormalizedPieces(u))

\* a repository as its hosting service knows it, and the ways to write its URL
RemoteUrls ==
    [host : {<<"github.com">>},
     path : {<<"x", "/", "y">>, <<"org", "/", "project", "/", "repo">>},
     dotGit : BOOLEAN,
     creds : {<<>>, <<"token">>, <<"user", ":", "pw">>}]
Suffix(u) == IF u.dotGit THEN <<".git">> ELSE <<>>
Credentials(u) == IF u.creds = <<>> THEN <<>> ELSE u.creds \o <<"@">>
\* git@host:owner/name(.git)?
SshForm(u) == <<"git", "@">> \o u.host \o <<":">> \o u.path \o Suffix(u)
\* ssh://[user@]host/owner/name(.git)?
SshUrlForm(u) == <<"ssh://">> \o Credentials(u) \o u.host \o <<"/">> \o u.path \o Suffix(u)
\* https://[creds@]host/owner/name(.git)?
HttpsForm(u) == <<"https://">> \o Credentials(u) \o u.host \o <<"/">> \o u.path \o Suffix(u)
HttpsOriginUrl == <<"https://", "token", "@", "github.com", "/", "x", "/", "y", ".git">>
FileUrl == <<"file://", "/", "srv", "/", "y">>
\* the origins a checkout of the identity specification may have
IdentityRemotes == {NoRemote, OriginUrl, HttpsOriginUrl, FileUrl}
\* md5 of the three kinds of input, injective on the inputs of the model
CanonicalIdFromUrl(n) == "md5(" \o n \o ")"
CanonicalIdFromCommit(sha) == "md5(commit:" \o sha \o ")"
CanonicalIdFromPath(resolvedPath) == "md5(" \o resolvedPath \o ")"
Ids == {CanonicalIdFromUrl("github.com/x/y"), CanonicalIdFromCommit(RootCommit)}

\* execGitCommand: a command that fails or times out returns null
GetRemoteOriginUrl(g, rem, p) == IF "config" \in g.fails[p] THEN NoRemote ELSE rem[RepoOf(p)]
GetInitialCommitSha(g, p) == IF "rev-list" \in g.fails[p] THEN NoCommits ELSE g.root[p]

\* a resolver that prefers the root commit to the origin URL
IdentityFromCommitFirst(normalizedUrl, urlName, initialCommit, p) ==
    IF initialCommit # NoCommits
    THEN [canonicalId |-> CanonicalIdFromCommit(initialCommit), remoteUrl |-> None,
          displayName |-> Basename(p), identitySource |-> "initial-commit",
          isWorktree |-> IsWorktreePath(p)]
    ELSE IF IsSome(normalizedUrl)
    THEN [canonicalId |-> CanonicalIdFromUrl(Val(normalizedUrl)), remoteUrl |-> normalizedUrl,
          displayName |-> urlName, identitySource |-> "remote-url",
          isWorktree |-> IsWorktreePath(p)]
    ELSE [canonicalId |-> CanonicalIdFromPath(p), remoteUrl |-> None,
          displayName |-> Basename(p), identitySource |-> "path-hash",
          isWorktree |-> IsWorktreePath(p)]
\* resolveIdentity once git has answered: the first source that gave a value
IdentityFrom(normalizedUrl, urlName, initialCommit, p) ==
    IF IsSome(normalizedUrl)
    THEN [canonicalId |-> CanonicalIdFromUrl(Val(normalizedUrl)), remoteUrl |-> normalizedUrl,
          displayName |-> urlName, identitySource |-> "remote-url",
          isWorktree |-> IsWorktreePath(p)]
    ELSE IF initialCommit # NoCommits
    THEN [canonicalId |-> CanonicalIdFromCommit(initialCommit), remoteUrl |-> None,
          displayName |-> Basename(p), identitySource |-> "initial-commit",
          isWorktree |-> IsWorktreePath(p)]
    ELSE [canonicalId |-> CanonicalIdFromPath(p), remoteUrl |-> None,
          displayName |-> Basename(p), identitySource |-> "path-hash",
          isWorktree |-> IsWorktreePath(p)]
\* resolveIdentity once git has answered, from the pieces of the normalized origin
IdentityOfPieces(pieces, initialCommit, p) ==
    IdentityFrom(NullOrJoined(pieces), LastPart(pieces), initialCommit, p)
\* resolveIdentity for every answer of git in the model; an empty rawRemoteUrl
\* is not normalized, and normalizeGitUrl of it is null too
Identities ==
    [rawRemoteUrl \in Remotes \cup IdentityRemotes, initialCommit \in RootShas, p \in Paths |->
        IdentityOfPieces(NormalizedPieces(rawRemoteUrl), initialCommit, p)]
\* resolveIdentity of a checkout, on the git state g and the origins rem
ResolveIdentityOf(g, rem, p) ==
    Identities[GetRemoteOriginUrl(g, rem, p), GetInitialCommitSha(g, p), p]
\* resolveIdentity, on the origins of the moment
ResolveIdentityIn(rem, p) == ResolveIdentityOf(git, rem, p)
ResolveIdentity(p) == ResolveIdentityIn(remote, p)

(***************************************************************************)
(* RepoRegistry                                                            *)
(***************************************************************************)
MaxClock == 1

\* RegisterOptions: each field given or not
NoOptions == [collectionName |-> None, isIndexed |-> None,
              indexedFiles |-> None, totalChunks |-> None]
FullOptions == [collectionName |-> Some("hybrid_code_chunks_1"), isIndexed |-> Some(TRUE),
                indexedFiles |-> Some(3), totalChunks |-> Some(3)]
\* the options the registry specification registers with
BasicOptionsSet == {NoOptions, FullOptions}
\* every way of giving or leaving out one field, and all of them at once
RegisterOptionsSet ==
    { NoOptions,
      [NoOptions EXCEPT !.isIndexed = Some(TRUE)],
      [NoOptions EXCEPT !.isIndexed = Some(FALSE)],
      [NoOptions EXCEPT !.collectionName = Some("hybrid_code_chunks_1")],
      [NoOptions EXCEPT !.indexedFiles = Some(3)],
      [NoOptions EXCEPT !.totalChunks = Some(3)],
      FullOptions }

HasRecord(repos, id) == id \in DOMAIN repos
MapPut(m, k, v) == [x \in DOMAIN m \cup {k} |-> IF x = k THEN v ELSE m[x]]
MapDel(m, k) == [x \in DOMAIN m \ {k} |-> m[x]]
MapDelAll(m, ks) == [x \in DOMAIN m \ ks |-> m[x]]
EmptyMap == [x \in {} |-> x]

\* a register that overlays collectionName whether it was given or not
RegisterExistingOverwrite(record, normalizedPath, identity, options, t) ==
    [record EXCEPT
       !.knownPaths = PushNew(@, normalizedPath),
       !.worktrees = IF identity.isWorktree THEN PushNew(@, normalizedPath) ELSE @,
       !.collectionName = options.collectionName,
       !.isIndexed = IF IsSome(options.isIndexed) THEN Val(options.isIndexed) ELSE @,
       !.lastIndexed = IF IsSome(options.isIndexed) /\ Val(options.isIndexed)
                       THEN Some(t) ELSE @,
       !.indexedFiles = IF IsSome(options.indexedFiles) THEN options.indexedFiles ELSE @,
       !.totalChunks = IF IsSome(options.totalChunks) THEN options.totalChunks ELSE @]

\* register, the branch that updates an existing record
RegisterExisting(record, normalizedPath, identity, options, t) ==
    LET r1 == [record EXCEPT
                 !.knownPaths = PushNew(@, normalizedPath),
                 !.worktrees = IF identity.isWorktree THEN PushNew(@, normalizedPath) ELSE @]
        r2 == IF IsSome(options.collectionName)
              THEN [r1 EXCEPT !.collectionName = options.collectionName] ELSE r1
        r3 == IF IsSome(options.isIndexed)
              THEN [r2 EXCEPT !.isIndexed = Val(options.isIndexed),
                              !.lastIndexed = IF Val(options.isIndexed) THEN Some(t) ELSE @]
              ELSE r2
        r4 == IF IsSome(options.indexedFiles)
              THEN [r3 EXCEPT !.indexedFiles = options.indexedFiles] ELSE r3
    IN IF IsSome(options.totalChunks)
       THEN [r4 EXCEPT !.totalChunks = options.totalChunks] ELSE r4

\* register, the branch that creates a record
RegisterNew(normalizedPath, identity, options, t) ==
    [canonicalId |-> identity.canonicalId,
     displayName |-> identity.displayName,
     remoteUrl |-> identity.remoteUrl,
     identitySource |-> identity.identitySource,
     knownPaths |-> <<normalizedPath>>,
     worktrees |-> IF identity.isWorktree THEN <<normalizedPath>> ELSE <<>>,
     isIndexed |-> IF IsSome(options.isIndexed) THEN Val(options.isIndexed) ELSE FALSE,
     collectionName |-> options.collectionName,
     lastIndexed |-> IF IsSome(options.isIndexed) /\ Val(options.isIndexed)
                     THEN Some(t) ELSE None,
     indexedFiles |-> options.indexedFiles,
     totalChunks |-> options.totalChunks]

\* register: the registry after the call, as <<repositories, pathToCanonicalId>>
RegisterIn(repos, index, identity, normalizedPath, options, t) ==
    LET canonicalId == identity.canonicalId
    IN IF HasRecord(repos, canonicalId)
       THEN <<MapPut(repos, canonicalId,
                     RegisterExisting(repos[canonicalId], normalizedPath, identity, options, t)),
              IF Includes(repos[canonicalId].knownPaths, normalizedPath)
              THEN index ELSE MapPut(index, normalizedPath, canonicalId)>>
       ELSE <<MapPut(repos, canonicalId, RegisterNew(normalizedPath, identity, options, t)),
              MapPut(index, normalizedPath, canonicalId)>>

\* a resolve that knows a repository by its registered paths only
ResolveInPathOnly(repos, index, identity, normalizedPath) ==
    IF normalizedPath \in DOMAIN index /\ HasRecord(repos, index[normalizedPath])
    THEN [found |-> TRUE, record |-> Some(repos[index[normalizedPath]]),
          isNewPathForExistingRepo |-> FALSE,
          primaryPath |-> Some(repos[index[normalizedPath]].knownPaths[1])]
    ELSE [found |-> FALSE, record |-> None,
          isNewPathForExistingRepo |-> FALSE, primaryPath |-> None]

\* a resolve that looks the canonical ID up before the path index
ResolveInCanonicalFirst(repos, index, identity, normalizedPath) ==
    IF HasRecord(repos, identity.canonicalId)
    THEN [found |-> TRUE, record |-> Some(repos[identity.canonicalId]),
          isNewPathForExistingRepo |-> TRUE,
          primaryPath |-> Some(repos[identity.canonicalId].knownPaths[1])]
    ELSE IF normalizedPath \in DOMAIN index
    THEN [found |-> TRUE, record |-> Some(repos[index[normalizedPath]]),
          isNewPathForExistingRepo |-> FALSE,
          primaryPath |-> Some(repos[index[normalizedPath]].knownPaths[1])]
    ELSE [found |-> FALSE, record |-> None,
          isNewPathForExistingRepo |-> FALSE, primaryPath |-> None]

\* resolve: what the call returns
ResolveIn(repos, index, identity, normalizedPath) ==
    IF normalizedPath \in DOMAIN index
    THEN [found |-> TRUE, record |-> Some(repos[index[normalizedPath]]),
          isNewPathForExistingRepo |-> FALSE,
          primaryPath |-> Some(repos[index[normalizedPath]].knownPaths[1])]
    ELSE IF HasRecord(repos, identity.canonicalId)
    THEN [found |-> TRUE, record |-> Some(repos[identity.canonicalId]),
          isNewPathForExistingRepo |-> TRUE,
          primaryPath |-> Some(repos[identity.canonicalId].knownPaths[1])]
    ELSE [found |-> FALSE, record |-> None,
          isNewPathForExistingRepo |-> FALSE, primaryPath |-> None]

\* a removePath that drops the record with the first path removed
RemovePathInDropsRecord(repos, index, normalizedPath) ==
    IF normalizedPath \notin DOMAIN index
    THEN <<repos, index>>
    ELSE <<MapDel(repos, index[normalizedPath]), MapDel(index, normalizedPath)>>

\* removePath: the registry after the call
RemovePathIn(repos, index, normalizedPath) ==
    IF normalizedPath \notin DOMAIN index
    THEN <<repos, index>>
    ELSE LET canonicalId == index[normalizedPath]
             index2 == MapDel(index, normalizedPath)
         IN IF HasRecord(repos, canonicalId)
            THEN LET rec == [repos[canonicalId] EXCEPT
                               !.knownPaths = Without(@, normalizedPath),
                               !.worktrees = Without(@, normalizedPath)]
                 IN IF Len(rec.knownPaths) = 0
                    THEN <<MapDel(repos, canonicalId), index2>>
                    ELSE <<MapPut(repos, canonicalId, rec), index2>>
            ELSE <<repos, index2>>

\* removeByCanonicalId: the registry after the call
RemoveByCanonicalIdIn(repos, index, canonicalId) ==
    IF ~HasRecord(repos, canonicalId)
    THEN <<repos, index>>
    ELSE <<MapDel(repos, canonicalId),
           MapDelAll(index, Elems(repos[canonicalId].knownPaths))>>

Size == Cardinality(DOMAIN repositories)

NoCall == [op |-> "none"]

\* the callers of the tool handlers: a network session, the pipe session, the sync loop
Tasks == {"http", "stdio", "sync"}
Free == "free"
NoRequest == [path |-> "", force |-> FALSE, canonicalId |-> ""]

\* the collections search_all fans out to
SearchCollections == {"c1", "c2", "c3"}
\* no search_all call yet
NoSearch ==
    [limit |-> 0, hits |-> [c \in SearchCollections |-> <<>>], arrived |-> <<>>,
     pending |-> {}, failed |-> {}, skipped |-> {}, started |-> 0, elapsed |-> 0,
     result |-> None, summary |-> None]

\* no index_codebase call in progress, an empty vector store
HandlersIdle ==
    /\ pc = [t \in Tasks |-> "idle"]
    /\ req = [t \in Tasks |-> NoRequest]
    /\ lockHolder = [id \in Ids |-> Free]
    /\ collections = {}
    /\ calls = 0
    /\ mappings = <<>>
    /\ migrationFile = None
    /\ search = NoSearch

\* a process that serves no transport
NoCfg == [transport |-> "stdio", help |-> FALSE, token |-> None, rateLimit |-> None]
HttpOff ==
    /\ proc = "running"
    /\ exitCode = None
    /\ listening = FALSE
    /\ stdio = FALSE
    /\ cfg = NoCfg
    /\ limits = EmptyMap
    /\ sessions = {}
    /\ issued = <<>>
    /\ serverOf = EmptyMap
    /\ shutdowns = <<>>

\* a SnapshotManager that has loaded nothing
StoreIsEmpty ==
    /\ snapRepositories = EmptyMap
    /\ snapPathToCanonicalId = EmptyMap
    /\ indexedCodebases = <<>>
    /\ indexingCodebases = EmptyMap
    /\ codebaseFileCount = EmptyMap
    /\ codebaseInfoMap = EmptyMap

\* new RepoRegistry(), on its own: no snapshot store behind it
Init ==
    /\ remote \in [Repos -> Remotes]
    /\ git = GitHealthy
    /\ now = 0
    /\ exists = Paths
    /\ repositories = EmptyMap
    /\ pathToCanonicalId = EmptyMap
    /\ shared = {}
    /\ phase = "running"
    /\ file = None
    /\ StoreIsEmpty
    /\ HandlersIdle
    /\ HttpOff
    /\ last = NoCall

\* git remote add origin / git remote remove origin, run by the user in a repository
SetRemote(r, u) ==
    /\ remote[r] # u
    /\ remote' = [remote EXCEPT ![r] = u]
    /\ last' = [op |-> "git-remote"]
    /\ UNCHANGED <<now, exists, git, registryVars, shared, phase, storeVars, handlerVars, httpVars>>

Tick ==
    /\ now < MaxClock
    /\ now' = now + 1
    /\ last' = [op |-> "tick"]
    /\ UNCHANGED <<remote, exists, git, registryVars, shared, phase, storeVars, handlerVars, httpVars>>

\* register pushes onto the arrays of the record: where the snapshot store
\* holds the same arrays, its record sees the pushed paths too
Register(raw, options) ==
    LET p == PathResolve(raw)
        identity == ResolveIdentity(p)
        id == identity.canonicalId
        res == RegisterIn(repositories, pathToCanonicalId, identity, p, options, now)
    IN /\ phase = "running"
       /\ repositories' = res[1]
       /\ pathToCanonicalId' = res[2]
       /\ snapRepositories' =
            IF id \in shared
            THEN [snapRepositories EXCEPT ![id].knownPaths = res[1][id].knownPaths,
                                          ![id].worktrees = res[1][id].worktrees]
            ELSE snapRepositories
       /\ last' = [op |-> "register", path |-> p, options |-> options,
                   existed |-> HasRecord(repositories, id)]
       /\ UNCHANGED <<envVars, shared, phase, file, snapPathToCanonicalId, legacyVars, handlerVars, httpVars>>

Resolve(raw) ==
    LET p == PathResolve(raw)
        identity == ResolveIdentity(p)
        res == ResolveIn(repositories, pathToCanonicalId, identity, p)
    IN /\ last' = [op |-> "resolve", path |-> p, canonicalId |-> identity.canonicalId,
                   found |-> res.found,
                   isNewPathForExistingRepo |-> res.isNewPathForExistingRepo,
                   sizeBefore |-> Size]
       /\ phase = "running"
       /\ UNCHANGED <<envVars, registryVars, shared, phase, storeVars, handlerVars, httpVars>>

\* removePath gives the record new arrays (filter): nothing is shared after it
RemovePath(raw) ==
    LET p == PathResolve(raw)
        res == RemovePathIn(repositories, pathToCanonicalId, p)
    IN /\ phase = "running"
       /\ repositories' = res[1]
       /\ pathToCanonicalId' = res[2]
       /\ shared' = IF p \in DOMAIN pathToCanonicalId
                    THEN shared \ {pathToCanonicalId[p]} ELSE shared
       /\ last' = [op |-> "removePath", path |-> p,
                   ret |-> p \in DOMAIN pathToCanonicalId]
       /\ UNCHANGED <<envVars, phase, storeVars, handlerVars, httpVars>>

RemoveByCanonicalId(id) ==
    LET res == RemoveByCanonicalIdIn(repositories, pathToCanonicalId, id)
    IN /\ phase = "running"
       /\ repositories' = res[1]
       /\ pathToCanonicalId' = res[2]
       /\ shared' = shared \ {id}
       /\ last' = [op |-> "removeByCanonicalId", canonicalId |-> id,
                   ret |-> HasRecord(repositories, id)]
       /\ UNCHANGED <<envVars, phase, storeVars, handlerVars, httpVars>>

(***************************************************************************)
(* Spec: a registry that starts empty, called with any sequence of         *)
(* register, resolve, removePath and removeByCanonicalId on any path,      *)
(* while the user may add or remove the origin of a repository.            *)
(***************************************************************************)
Next ==
    \/ \E r \in Repos, u \in Remotes : SetRemote(r, u)
    \/ \E raw \in RawPaths : Register(raw, NoOptions)
    \/ \E raw \in RawPaths : Resolve(raw)
    \/ \E raw \in RawPaths : RemovePath(raw)
    \/ \E id \in Ids : RemoveByCanonicalId(id)

Spec == Init /\ [][Next]_vars

(***************************************************************************)
(* SpecRegister: register alone, with every shape of options, on a         *)
(* worktree path and a clone while the clock runs.                         *)
(***************************************************************************)
RegisterPaths == {"/a/feat/", "/b/clone"}

NextRegister ==
    \/ Tick
    \/ \E raw \in RegisterPaths, o \in RegisterOptionsSet : Register(raw, o)

SpecRegister == Init /\ [][NextRegister]_vars

(***************************************************************************)
(* SnapshotManager (mcp/snapshot.ts)                                       *)
(***************************************************************************)
\* the order in which the entries of a map of canonical IDs are visited
IdSeq == <<CanonicalIdFromCommit(RootCommit), CanonicalIdFromUrl("github.com/x/y")>>

\* CodebaseInfo, the tagged union of the legacy views
InfoIndexed(files, chunks, t) ==
    [status |-> "indexed", indexedFiles |-> Some(files), totalChunks |-> Some(chunks),
     indexStatus |-> Some("completed"), indexingPercentage |-> None,
     errorMessage |-> None, lastAttemptedPercentage |-> None, lastUpdated |-> t]
InfoIndexing(percentage, t) ==
    [status |-> "indexing", indexedFiles |-> None, totalChunks |-> None,
     indexStatus |-> None, indexingPercentage |-> Some(percentage),
     errorMessage |-> None, lastAttemptedPercentage |-> None, lastUpdated |-> t]
InfoIndexFailed(message, t) ==
    [status |-> "indexfailed", indexedFiles |-> None, totalChunks |-> None,
     indexStatus |-> None, indexingPercentage |-> None,
     errorMessage |-> Some(message), lastAttemptedPercentage |-> None, lastUpdated |-> t]

\* n || 0 on an optional number, s || d on an optional string
OrZero(o) == IF IsSome(o) THEN Val(o) ELSE 0
OrText(o, d) == IF IsSome(o) /\ Val(o) # "" THEN Val(o) ELSE d

\* the state of a SnapshotManager, as one record
EmptyStore ==
    [repositories |-> EmptyMap, pathToCanonicalId |-> EmptyMap,
     indexedCodebases |-> <<>>, indexingCodebases |-> EmptyMap,
     codebaseFileCount |-> EmptyMap, codebaseInfoMap |-> EmptyMap]
CurrentStore ==
    [repositories |-> snapRepositories, pathToCanonicalId |-> snapPathToCanonicalId,
     indexedCodebases |-> indexedCodebases, indexingCodebases |-> indexingCodebases,
     codebaseFileCount |-> codebaseFileCount, codebaseInfoMap |-> codebaseInfoMap]

\* a populateLegacyStateFromRepo that reports every branch that is not indexed
\* as indexing
PopulatePathNeverFailed(st, b, pathItem) ==
    IF b.status = "indexed"
    THEN [st EXCEPT
            !.indexedCodebases = PushNew(@, pathItem),
            !.codebaseFileCount = MapPut(@, pathItem, b.indexedFiles),
            !.codebaseInfoMap =
                MapPut(@, pathItem, InfoIndexed(b.indexedFiles, b.totalChunks, b.lastIndexed))]
    ELSE [st EXCEPT
            !.indexingCodebases = MapPut(@, pathItem, OrZero(b.indexingPercentage)),
            !.codebaseInfoMap =
                MapPut(@, pathItem,
                       InfoIndexing(OrZero(b.indexingPercentage), b.lastIndexed))]

\* populateLegacyStateFromRepo, the body of its loop for one path
PopulatePath(st, b, pathItem) ==
    IF b.status = "indexed"
    THEN [st EXCEPT
            !.indexedCodebases = PushNew(@, pathItem),
            !.codebaseFileCount = MapPut(@, pathItem, b.indexedFiles),
            !.codebaseInfoMap =
                MapPut(@, pathItem, InfoIndexed(b.indexedFiles, b.totalChunks, b.lastIndexed))]
    ELSE IF b.status = "indexing"
    THEN [st EXCEPT
            !.indexingCodebases = MapPut(@, pathItem, OrZero(b.indexingPercentage)),
            !.codebaseInfoMap =
                MapPut(@, pathItem,
                       InfoIndexing(OrZero(b.indexingPercentage), b.lastIndexed))]
    ELSE [st EXCEPT
            !.codebaseInfoMap =
                MapPut(@, pathItem,
                       InfoIndexFailed(OrText(b.errorMessage, "Unknown error"), b.lastIndexed))]

RECURSIVE PopulatePaths(_, _, _)
PopulatePaths(st, b, paths) ==
    IF paths = <<>> THEN st
    ELSE PopulatePaths(PopulatePath(st, b, Head(paths)), b, Tail(paths))

PopulateLegacyStateFromRepo(st, repo) ==
    IF repo.defaultBranch \notin DOMAIN repo.branches THEN st
    ELSE PopulatePaths(st, repo.branches[repo.defaultBranch], repo.knownPaths)

\* repositories.set(canonicalId, repo), then pathToCanonicalId.set for each of paths
SetRepository(st, canonicalId, repo, paths) ==
    [st EXCEPT
       !.repositories = MapPut(@, canonicalId, repo),
       !.pathToCanonicalId =
           [x \in DOMAIN st.pathToCanonicalId \cup Elems(paths) |->
              IF x \in Elems(paths) THEN canonicalId ELSE st.pathToCanonicalId[x]]]

\* a loadV3Format that keeps the worktrees of the file as they are
LoadV3RepoKeepsWorktrees(st, canonicalId, repoSnapshot, ex) ==
    LET validPaths == SelectSeq(repoSnapshot.knownPaths, LAMBDA p : p \in ex)
        updatedSnapshot == [repoSnapshot EXCEPT !.knownPaths = validPaths]
    IN IF validPaths = <<>> THEN st
       ELSE PopulateLegacyStateFromRepo(
              SetRepository(st, canonicalId, updatedSnapshot, validPaths), updatedSnapshot)

\* loadV3Format, the body of its loop for one repository of the file
LoadV3Repo(st, canonicalId, repoSnapshot, ex) ==
    LET validPaths == SelectSeq(repoSnapshot.knownPaths, LAMBDA p : p \in ex)
        updatedSnapshot ==
            [repoSnapshot EXCEPT
               !.knownPaths = validPaths,
               !.worktrees = SelectSeq(@, LAMBDA w : Includes(validPaths, w))]
    IN IF validPaths = <<>> THEN st
       ELSE PopulateLegacyStateFromRepo(
              SetRepository(st, canonicalId, updatedSnapshot, validPaths), updatedSnapshot)

\* an entry of `repositories` without a knownPaths array:
\* repoSnapshot.knownPaths.filter throws a TypeError
Malformed(repoSnapshot) == "knownPaths" \notin DOMAIN repoSnapshot

\* a loadV3Format whose loop skips an entry it cannot read
RECURSIVE LoadV3ReposSkipsMalformed(_, _, _, _)
LoadV3ReposSkipsMalformed(st, repos, ids, ex) ==
    IF ids = <<>> THEN st
    ELSE LoadV3ReposSkipsMalformed(
           IF Head(ids) \in DOMAIN repos /\ ~Malformed(repos[Head(ids)])
           THEN LoadV3Repo(st, Head(ids), repos[Head(ids)], ex) ELSE st,
           repos, Tail(ids), ex)

\* loadV3Format, its loop over Object.entries(snapshot.repositories): the
\* TypeError of a malformed entry leaves the loop with the state built so far
RECURSIVE LoadV3Repos(_, _, _, _)
LoadV3Repos(st, repos, ids, ex) ==
    IF ids = <<>> THEN st
    ELSE IF Head(ids) \in DOMAIN repos /\ Malformed(repos[Head(ids)]) THEN st
    ELSE LoadV3Repos(IF Head(ids) \in DOMAIN repos
                     THEN LoadV3Repo(st, Head(ids), repos[Head(ids)], ex) ELSE st,
                     repos, Tail(ids), ex)

LoadV3Format(snapshot, ex) == LoadV3Repos(EmptyStore, snapshot.repositories, IdSeq, ex)

\* migrateV1ToV3 / migrateV2ToV3: one path of the file joins the group of its
\* canonical ID; only the v2 migration lets an indexed info replace the group's
AddToGroup(groups, identity, codebasePath, info, isV2) ==
    LET canonicalId == identity.canonicalId
    IN IF canonicalId \in DOMAIN groups
       THEN [groups EXCEPT
               ![canonicalId].paths = PushNew(@, codebasePath),
               ![canonicalId].info =
                   IF isV2 /\ info.status = "indexed" /\ @.status # "indexed"
                   THEN info ELSE @]
       ELSE MapPut(groups, canonicalId,
                   [identity |-> identity, paths |-> <<codebasePath>>, info |-> info])

\* the groups of the paths of a v1 file that still exist
RECURSIVE GroupsV1(_, _, _, _, _)
GroupsV1(groups, paths, ex, rem, t) ==
    IF paths = <<>> THEN groups
    ELSE GroupsV1(IF Head(paths) \in ex
                  THEN AddToGroup(groups, ResolveIdentityIn(rem, PathResolve(Head(paths))),
                                  Head(paths), InfoIndexed(0, 0, t), FALSE)
                  ELSE groups,
                  Tail(paths), ex, rem, t)

\* the groups of the entries <<path, info>> of a v2 file whose path still exists
RECURSIVE GroupsV2(_, _, _, _)
GroupsV2(groups, entries, ex, rem) ==
    IF entries = <<>> THEN groups
    ELSE GroupsV2(IF Head(entries)[1] \in ex
                  THEN AddToGroup(groups,
                                  ResolveIdentityIn(rem, PathResolve(Head(entries)[1])),
                                  Head(entries)[1], Head(entries)[2], TRUE)
                  ELSE groups,
                  Tail(entries), ex, rem)

\* buildV3StateFromGroups, the body of its loop for one group
BuildV3Repo(st, canonicalId, group, rem, t) ==
    LET info == group.info
        worktrees == SelectSeq(group.paths,
                               LAMBDA p : ResolveIdentityIn(rem, PathResolve(p)).isWorktree)
        branchSnapshot ==
            [status |-> IF info.status = "indexed" THEN "indexed"
                        ELSE IF info.status = "indexing" THEN "indexing" ELSE "indexfailed",
             indexedFiles |-> IF IsSome(info.indexedFiles) THEN Val(info.indexedFiles) ELSE 0,
             totalChunks |-> IF IsSome(info.totalChunks) THEN Val(info.totalChunks) ELSE 0,
             lastIndexed |-> info.lastUpdated,
             indexingPercentage |-> info.indexingPercentage,
             errorMessage |-> info.errorMessage]
        repoSnapshot ==
            [displayName |-> group.identity.displayName,
             remoteUrl |-> group.identity.remoteUrl,
             identitySource |-> group.identity.identitySource,
             knownPaths |-> group.paths,
             worktrees |-> worktrees,
             branches |-> MapPut(EmptyMap, "default", branchSnapshot),
             defaultBranch |-> "default",
             lastIndexed |-> t]
    IN PopulateLegacyStateFromRepo(
         SetRepository(st, canonicalId, repoSnapshot, group.paths), repoSnapshot)

RECURSIVE BuildV3Repos(_, _, _, _, _)
BuildV3Repos(st, groups, ids, rem, t) ==
    IF ids = <<>> THEN st
    ELSE BuildV3Repos(IF Head(ids) \in DOMAIN groups
                      THEN BuildV3Repo(st, Head(ids), groups[Head(ids)], rem, t) ELSE st,
                      groups, Tail(ids), rem, t)

BuildV3StateFromGroups(groups, rem, t) == BuildV3Repos(EmptyStore, groups, IdSeq, rem, t)

MigrateV1ToV3(snapshot, ex, rem, t) ==
    BuildV3StateFromGroups(GroupsV1(EmptyMap, snapshot.indexedCodebases, ex, rem, t), rem, t)

MigrateV2ToV3(snapshot, ex, rem, t) ==
    BuildV3StateFromGroups(GroupsV2(EmptyMap, snapshot.codebases, ex, rem), rem, t)

\* the file is there and loading it throws: JSON.parse on text that is not
\* JSON (written here as format "unparsable"), or loadV3Format on an entry
\* without knownPaths
LoadThrows(f) ==
    /\ f # None
    /\ \/ Val(f).formatVersion = "unparsable"
       \/ /\ Val(f).formatVersion = "v3"
          /\ \E id \in DOMAIN Val(f).repositories : Malformed(Val(f).repositories[id])

\* loadCodebaseSnapshot: the state it leaves in memory; the catch block
\* leaves the fields as the throwing statement found them
LoadCodebaseSnapshot(f, ex, rem, t) ==
    IF f = None THEN EmptyStore
    ELSE IF Val(f).formatVersion = "unparsable" THEN EmptyStore
    ELSE IF Val(f).formatVersion = "v3" THEN LoadV3Format(Val(f), ex)
    ELSE IF Val(f).formatVersion = "v2" THEN MigrateV2ToV3(Val(f), ex, rem, t)
    ELSE MigrateV1ToV3(Val(f), ex, rem, t)

\* saveCodebaseSnapshot: the file it writes
SnapshotFile(repos) == Some([formatVersion |-> "v3", repositories |-> repos])

\* Partial<BranchSnapshot>: each field given or not
NoBranchState ==
    [status |-> None, indexedFiles |-> None, totalChunks |-> None,
     indexingPercentage |-> None, errorMessage |-> None]
BranchStates ==
    { [NoBranchState EXCEPT !.status = Some("indexing"), !.indexingPercentage = Some(50)],
      [NoBranchState EXCEPT !.status = Some("indexed"), !.indexedFiles = Some(3),
                            !.totalChunks = Some(3)] }

\* updateRepositoryState: the state it leaves in memory
UpdateRepositoryStateIn(st, rem, codebasePath, branchName, branchState, t) ==
    LET identity == ResolveIdentityIn(rem, PathResolve(codebasePath))
        canonicalId == identity.canonicalId
        isNew == canonicalId \notin DOMAIN st.repositories
        repo0 == IF isNew
                 THEN [displayName |-> identity.displayName,
                       remoteUrl |-> identity.remoteUrl,
                       identitySource |-> identity.identitySource,
                       knownPaths |-> <<codebasePath>>,
                       worktrees |-> IF identity.isWorktree THEN <<codebasePath>> ELSE <<>>,
                       branches |-> EmptyMap,
                       defaultBranch |-> branchName,
                       lastIndexed |-> t]
                 ELSE [st.repositories[canonicalId] EXCEPT
                         !.knownPaths = PushNew(@, codebasePath),
                         !.worktrees = IF identity.isWorktree
                                       THEN PushNew(@, codebasePath) ELSE @]
        indexPath == isNew \/ ~Includes(st.repositories[canonicalId].knownPaths, codebasePath)
        existingBranch ==
            IF branchName \in DOMAIN repo0.branches THEN repo0.branches[branchName]
            ELSE [status |-> "indexing", indexedFiles |-> 0, totalChunks |-> 0,
                  lastIndexed |-> t, indexingPercentage |-> None, errorMessage |-> None]
        branch ==
            [status |-> IF IsSome(branchState.status)
                        THEN Val(branchState.status) ELSE existingBranch.status,
             indexedFiles |-> IF IsSome(branchState.indexedFiles)
                              THEN Val(branchState.indexedFiles) ELSE existingBranch.indexedFiles,
             totalChunks |-> IF IsSome(branchState.totalChunks)
                             THEN Val(branchState.totalChunks) ELSE existingBranch.totalChunks,
             lastIndexed |-> t,
             indexingPercentage |-> IF IsSome(branchState.indexingPercentage)
                                    THEN branchState.indexingPercentage
                                    ELSE existingBranch.indexingPercentage,
             errorMessage |-> IF IsSome(branchState.errorMessage)
                              THEN branchState.errorMessage ELSE existingBranch.errorMessage]
        repo == [repo0 EXCEPT !.branches = MapPut(@, branchName, branch), !.lastIndexed = t]
    IN PopulateLegacyStateFromRepo(
         SetRepository(st, canonicalId, repo, IF indexPath THEN <<codebasePath>> ELSE <<>>),
         repo)

\* createRegistryFromSnapshot: the record made of one repository of the store
RecordFromSnapshot(canonicalId, repo) ==
    LET hasDefault == repo.defaultBranch \in DOMAIN repo.branches
        isIndexed == hasDefault /\ repo.branches[repo.defaultBranch].status = "indexed"
    IN [canonicalId |-> canonicalId,
        displayName |-> repo.displayName,
        remoteUrl |-> repo.remoteUrl,
        identitySource |-> repo.identitySource,
        knownPaths |-> repo.knownPaths,
        worktrees |-> repo.worktrees,
        isIndexed |-> isIndexed,
        collectionName |-> None,
        lastIndexed |-> IF isIndexed THEN Some(repo.lastIndexed) ELSE None,
        indexedFiles |-> IF isIndexed
                         THEN Some(repo.branches[repo.defaultBranch].indexedFiles) ELSE None,
        totalChunks |-> IF isIndexed
                        THEN Some(repo.branches[repo.defaultBranch].totalChunks) ELSE None]

CreateRegistryFromSnapshot(repos) ==
    [canonicalId \in DOMAIN repos |-> RecordFromSnapshot(canonicalId, repos[canonicalId])]

\* the RepoRegistry constructor: the path index of the initial records, a
\* later record winning a path that an earlier one lists too
RECURSIVE PathIndexOf(_, _, _)
PathIndexOf(index, records, ids) ==
    IF ids = <<>> THEN index
    ELSE PathIndexOf(
           IF Head(ids) \in DOMAIN records
           THEN [x \in DOMAIN index \cup Elems(records[Head(ids)].knownPaths) |->
                   IF x \in Elems(records[Head(ids)].knownPaths) THEN Head(ids) ELSE index[x]]
           ELSE index,
           records, Tail(ids))

(***************************************************************************)
(* The snapshot files a start may find, and the paths that are left on     *)
(* disk by then.                                                           *)
(***************************************************************************)
IndexedBranch ==
    [status |-> "indexed", indexedFiles |-> 3, totalChunks |-> 3, lastIndexed |-> 0,
     indexingPercentage |-> None, errorMessage |-> None]
IndexingBranch ==
    [status |-> "indexing", indexedFiles |-> 0, totalChunks |-> 0, lastIndexed |-> 0,
     indexingPercentage |-> Some(50), errorMessage |-> None]
FileRepo(name, url, source, paths, worktrees, branch) ==
    [displayName |-> name, remoteUrl |-> url, identitySource |-> source,
     knownPaths |-> paths, worktrees |-> worktrees,
     branches |-> MapPut(EmptyMap, "default", branch),
     defaultBranch |-> "default", lastIndexed |-> 0]
FileV1 == [formatVersion |-> "v1", indexedCodebases |-> <<"/a/main", "/a/feat">>]
FileV2 ==
    [formatVersion |-> "v2",
     codebases |-> << <<"/a/feat", InfoIndexing(50, 0)>>, <<"/a/main", InfoIndexed(3, 3, 0)>>,
                      <<"/b/clone", InfoIndexed(3, 3, 0)>> >>]
FileV3One ==
    [formatVersion |-> "v3",
     repositories |->
       MapPut(EmptyMap, CanonicalIdFromCommit(RootCommit),
              FileRepo("main", None, "initial-commit",
                       <<"/a/main", "/a/feat">>, <<"/a/feat">>, IndexedBranch))]
FileV3Two ==
    [formatVersion |-> "v3",
     repositories |->
       MapPut(MapPut(EmptyMap, CanonicalIdFromCommit(RootCommit),
                     FileRepo("feat", None, "initial-commit",
                              <<"/a/feat", "/a/main">>, <<"/a/feat">>, IndexingBranch)),
              CanonicalIdFromUrl("github.com/x/y"),
              FileRepo("y", Some("github.com/x/y"), "remote-url",
                       <<"/b/clone">>, <<>>, IndexedBranch))]
\* a file that is not JSON
FileUnparsable == [formatVersion |-> "unparsable"]
\* a v3 file whose second repository has no knownPaths
FileV3Partly ==
    [formatVersion |-> "v3",
     repositories |->
       MapPut(FileV3One.repositories, CanonicalIdFromUrl("github.com/x/y"),
              [displayName |-> "y"])]
\* a v3 file whose only repository has no knownPaths
FileV3Broken ==
    [formatVersion |-> "v3",
     repositories |->
       MapPut(EmptyMap, CanonicalIdFromCommit(RootCommit), [displayName |-> "x"])]
\* a v3 file whose repository has no branch yet
FileV3Bare ==
    [formatVersion |-> "v3",
     repositories |->
       MapPut(EmptyMap, CanonicalIdFromCommit(RootCommit),
              [FileRepo("main", None, "initial-commit", <<"/a/main">>, <<>>,
                        IndexedBranch) EXCEPT !.branches = EmptyMap])]
Files == {None, Some(FileV1), Some(FileV2), Some(FileV3One), Some(FileV3Two)}
ExistsChoices == {Paths, {"/a/main", "/b/clone"}, {"/a/feat", "/b/clone"}}

\* the process before `new ContextMcpServer(config)`
InitStore ==
    /\ remote \in [Repos -> Remotes]
    /\ git = GitHealthy
    /\ now = 0
    /\ exists \in ExistsChoices
    /\ repositories = EmptyMap
    /\ pathToCanonicalId = EmptyMap
    /\ shared = {}
    /\ phase = "new"
    /\ file \in Files
    /\ StoreIsEmpty
    /\ HandlersIdle
    /\ HttpOff
    /\ last = NoCall

\* the ContextMcpServer constructor: load the snapshot (and save it back when
\* there was a file), then build the registry over the loaded records
Construct ==
    LET st == LoadCodebaseSnapshot(file, exists, remote, now)
        records == CreateRegistryFromSnapshot(st.repositories)
    IN /\ phase = "new"
       /\ phase' = "running"
       /\ snapRepositories' = st.repositories
       /\ snapPathToCanonicalId' = st.pathToCanonicalId
       /\ indexedCodebases' = st.indexedCodebases
       /\ indexingCodebases' = st.indexingCodebases
       /\ codebaseFileCount' = st.codebaseFileCount
       /\ codebaseInfoMap' = st.codebaseInfoMap
       /\ file' = IF file = None \/ LoadThrows(file) THEN file
                  ELSE SnapshotFile(st.repositories)
       /\ repositories' = records
       /\ pathToCanonicalId' = PathIndexOf(EmptyMap, records, IdSeq)
       /\ shared' = DOMAIN records
       /\ last' = [op |-> "construct",
                   format |-> IF file = None THEN "none" ELSE Val(file).formatVersion,
                   loaded |-> file]
       /\ UNCHANGED <<envVars, handlerVars, httpVars>>

\* updateRepositoryState pushes onto the arrays of the store's record: where
\* the registry holds the same arrays, its record sees the pushed paths too
UpdateRepositoryState(codebasePath, branchName, branchState) ==
    LET st == UpdateRepositoryStateIn(CurrentStore, remote, codebasePath, branchName,
                                      branchState, now)
        id == ResolveIdentity(PathResolve(codebasePath)).canonicalId
    IN /\ phase = "running"
       /\ snapRepositories' = st.repositories
       /\ snapPathToCanonicalId' = st.pathToCanonicalId
       /\ indexedCodebases' = st.indexedCodebases
       /\ indexingCodebases' = st.indexingCodebases
       /\ codebaseFileCount' = st.codebaseFileCount
       /\ codebaseInfoMap' = st.codebaseInfoMap
       /\ repositories' =
            IF id \in shared
            THEN [repositories EXCEPT ![id].knownPaths = st.repositories[id].knownPaths,
                                      ![id].worktrees = st.repositories[id].worktrees]
            ELSE repositories
       /\ last' = [op |-> "updateRepositoryState", path |-> codebasePath]
       /\ UNCHANGED <<envVars, pathToCanonicalId, shared, phase, file, handlerVars, httpVars>>

SaveCodebaseSnapshot ==
    /\ phase = "running"
    /\ file' = SnapshotFile(snapRepositories)
    /\ last' = [op |-> "saveCodebaseSnapshot"]
    /\ UNCHANGED <<envVars, registryVars, shared, phase, snapRepositories,
                   snapPathToCanonicalId, legacyVars, handlerVars, httpVars>>

(***************************************************************************)
(* SpecStore: the server is constructed over whatever snapshot file it     *)
(* finds; then paths that exist are registered, removed and indexed.       *)
(***************************************************************************)
StoreInputs == {"/a/main", "/a/feat/"}

NextStore ==
    \/ Construct
    \/ \E raw \in StoreInputs : PathResolve(raw) \in exists /\ Register(raw, NoOptions)
    \/ \E raw \in StoreInputs : RemovePath(raw)
    \/ \E raw \in StoreInputs, bs \in BranchStates :
         PathResolve(raw) \in exists /\ UpdateRepositoryState(raw, "default", bs)

SpecStore == InitStore /\ [][NextStore]_vars

(***************************************************************************)
(* The legacy setters and getters of the SnapshotManager                   *)
(***************************************************************************)
\* setCodebaseIndexing: the state it leaves in memory
SetCodebaseIndexingIn(st, codebasePath, progress, t) ==
    [st EXCEPT
       !.indexingCodebases = MapPut(@, codebasePath, progress),
       !.indexedCodebases = Without(@, codebasePath),
       !.codebaseFileCount = MapDel(@, codebasePath),
       !.codebaseInfoMap = MapPut(@, codebasePath, InfoIndexing(progress, t))]

\* setCodebaseIndexed
SetCodebaseIndexedIn(st, codebasePath, stats, t) ==
    [st EXCEPT
       !.indexedCodebases = PushNew(@, codebasePath),
       !.indexingCodebases = MapDel(@, codebasePath),
       !.codebaseFileCount = MapPut(@, codebasePath, stats.indexedFiles),
       !.codebaseInfoMap =
           MapPut(@, codebasePath,
                  [InfoIndexed(stats.indexedFiles, stats.totalChunks, t)
                     EXCEPT !.indexStatus = Some(stats.status)])]

\* setCodebaseIndexFailed
SetCodebaseIndexFailedIn(st, codebasePath, errorMessage, lastAttemptedPercentage, t) ==
    [st EXCEPT
       !.indexedCodebases = Without(@, codebasePath),
       !.indexingCodebases = MapDel(@, codebasePath),
       !.codebaseFileCount = MapDel(@, codebasePath),
       !.codebaseInfoMap =
           MapPut(@, codebasePath,
                  [InfoIndexFailed(errorMessage, t)
                     EXCEPT !.lastAttemptedPercentage = lastAttemptedPercentage])]

\* removeCodebaseCompletely
RemoveCodebaseCompletelyIn(st, codebasePath) ==
    [st EXCEPT
       !.indexedCodebases = Without(@, codebasePath),
       !.indexingCodebases = MapDel(@, codebasePath),
       !.codebaseFileCount = MapDel(@, codebasePath),
       !.codebaseInfoMap = MapDel(@, codebasePath)]

\* the legacy fields of the manager become those of st
LegacyBecomes(st) ==
    /\ indexedCodebases' = st.indexedCodebases
    /\ indexingCodebases' = st.indexingCodebases
    /\ codebaseFileCount' = st.codebaseFileCount
    /\ codebaseInfoMap' = st.codebaseInfoMap

SetCodebaseIndexing(codebasePath, progress) ==
    /\ phase = "running"
    /\ LegacyBecomes(SetCodebaseIndexingIn(CurrentStore, codebasePath, progress, now))
    /\ last' = [op |-> "setCodebaseIndexing", path |-> codebasePath]
    /\ UNCHANGED <<envVars, registryVars, shared, phase, file, snapRepositories,
                   snapPathToCanonicalId, handlerVars, httpVars>>

SetCodebaseIndexed(codebasePath, stats) ==
    /\ phase = "running"
    /\ LegacyBecomes(SetCodebaseIndexedIn(CurrentStore, codebasePath, stats, now))
    /\ last' = [op |-> "setCodebaseIndexed", path |-> codebasePath]
    /\ UNCHANGED <<envVars, registryVars, shared, phase, file, snapRepositories,
                   snapPathToCanonicalId, handlerVars, httpVars>>

SetCodebaseIndexFailed(codebasePath, errorMessage, lastAttemptedPercentage) ==
    /\ phase = "running"
    /\ LegacyBecomes(SetCodebaseIndexFailedIn(CurrentStore, codebasePath, errorMessage,
                                               lastAttemptedPercentage, now))
    /\ last' = [op |-> "setCodebaseIndexFailed", path |-> codebasePath]
    /\ UNCHANGED <<envVars, registryVars, shared, phase, file, snapRepositories,
                   snapPathToCanonicalId, handlerVars, httpVars>>

RemoveCodebaseCompletely(codebasePath) ==
    /\ phase = "running"
    /\ LegacyBecomes(RemoveCodebaseCompletelyIn(CurrentStore, codebasePath))
    /\ last' = [op |-> "removeCodebaseCompletely", path |-> codebasePath]
    /\ UNCHANGED <<envVars, registryVars, shared, phase, file, snapRepositories,
                   snapPathToCanonicalId, handlerVars, httpVars>>

\* getIndexedCodebases, which reads the snapshot file: the known paths of
\* the repositories of a v3 file whose default branch is indexed
RECURSIVE IndexedPathsOf(_, _)
IndexedPathsOf(repos, ids) ==
    IF ids = <<>> THEN <<>>
    ELSE (IF /\ Head(ids) \in DOMAIN repos
             /\ repos[Head(ids)].defaultBranch \in DOMAIN repos[Head(ids)].branches
             /\ repos[Head(ids)].branches[repos[Head(ids)].defaultBranch].status = "indexed"
          THEN repos[Head(ids)].knownPaths ELSE <<>>)
         \o IndexedPathsOf(repos, Tail(ids))

RECURSIVE IndexedEntries(_)
IndexedEntries(entries) ==
    IF entries = <<>> THEN <<>>
    ELSE (IF Head(entries)[2].status = "indexed" THEN <<Head(entries)[1]>> ELSE <<>>)
         \o IndexedEntries(Tail(entries))

GetIndexedCodebases(f) ==
    IF f = None THEN <<>>
    ELSE IF Val(f).formatVersion = "v3" THEN IndexedPathsOf(Val(f).repositories, IdSeq)
    ELSE IF Val(f).formatVersion = "v2" THEN IndexedEntries(Val(f).codebases)
    ELSE Val(f).indexedCodebases

\* getCodebaseStatus
GetCodebaseStatus(infoMap, codebasePath) ==
    IF codebasePath \in DOMAIN infoMap THEN infoMap[codebasePath].status ELSE "not_found"

(***************************************************************************)
(* SpecMigrate: the server starts over a v1 or a v2 snapshot file, with    *)
(* every choice of paths left on disk and of remotes.                      *)
(***************************************************************************)
FileV1Indexing ==
    [formatVersion |-> "v1", indexedCodebases |-> <<"/b/clone">>,
     indexingCodebases |-> MapPut(EmptyMap, "/a/main", 30)]
FileV1Single ==
    [formatVersion |-> "v1", indexedCodebases |-> <<"/a/main">>,
     indexingCodebases |-> EmptyMap]
FileV2Single ==
    [formatVersion |-> "v2",
     codebases |-> << <<"/a/main", InfoIndexed(3, 3, 0)>> >>]
FileV2Failed ==
    [formatVersion |-> "v2",
     codebases |-> << <<"/a/main", [InfoIndexFailed("disk full", 0)
                                      EXCEPT !.lastAttemptedPercentage = Some(40)]>>,
                      <<"/b/clone", InfoIndexing(50, 0)>> >>]
FileV2Limit ==
    [formatVersion |-> "v2",
     codebases |-> << <<"/b/clone", [InfoIndexed(3, 3, 0)
                                       EXCEPT !.indexStatus = Some("limit_reached")]>> >>]
MigrateFiles ==
    {Some(FileV1), Some(FileV1Indexing), Some(FileV1Single),
     Some(FileV2), Some(FileV2Single), Some(FileV2Failed), Some(FileV2Limit)}

InitMigrate ==
    /\ remote \in [Repos -> Remotes]
    /\ git = GitHealthy
    /\ now \in {0, 1}
    /\ exists \in ExistsChoices
    /\ repositories = EmptyMap
    /\ pathToCanonicalId = EmptyMap
    /\ shared = {}
    /\ phase = "new"
    /\ file \in MigrateFiles
    /\ StoreIsEmpty
    /\ HandlersIdle
    /\ HttpOff
    /\ last = NoCall

NextMigrate == Construct

SpecMigrate == InitMigrate /\ [][NextMigrate]_vars

(***************************************************************************)
(* SpecLoad: the server is constructed over a file of any format, sound or *)
(* corrupt, with all or some of its paths still on disk.                   *)
(***************************************************************************)
CorruptFiles == {Some(FileUnparsable), Some(FileV3Partly), Some(FileV3Broken)}
LoadExists == ExistsChoices \cup {{"/a/main", "/a/feat"}}
LoadFiles == Files \cup MigrateFiles \cup CorruptFiles

InitLoad ==
    /\ remote \in [Repos -> Remotes]
    /\ git = GitHealthy
    /\ now \in {0, 1}
    /\ exists \in LoadExists
    /\ repositories = EmptyMap
    /\ pathToCanonicalId = EmptyMap
    /\ shared = {}
    /\ phase = "new"
    /\ file \in LoadFiles
    /\ StoreIsEmpty
    /\ HandlersIdle
    /\ HttpOff
    /\ last = NoCall

NextLoad == Construct

SpecLoad == InitLoad /\ [][NextLoad]_vars

(***************************************************************************)
(* SpecViews: the server starts without a snapshot file or over a v3 file, *)
(* and the handlers call the v3 and the legacy setters of the store on two *)
(* checkouts of one repository.                                            *)
(***************************************************************************)
ViewPaths == {"/a/main", "/a/feat"}
BranchNames == {"default", "feature"}
IndexStats == [indexedFiles |-> 3, totalChunks |-> 3, status |-> "completed"]

InitViews ==
    /\ remote = [r \in Repos |-> NoRemote]
    /\ git = GitHealthy
    /\ now = 0
    /\ exists = Paths
    /\ repositories = EmptyMap
    /\ pathToCanonicalId = EmptyMap
    /\ shared = {}
    /\ phase = "new"
    /\ file \in {None, Some(FileV3One), Some(FileV3Two), Some(FileV3Bare)}
    /\ StoreIsEmpty
    /\ HandlersIdle
    /\ HttpOff
    /\ last = NoCall

NextViews ==
    \/ Construct
    \/ \E codebasePath \in ViewPaths, branchName \in BranchNames, bs \in BranchStates :
         UpdateRepositoryState(codebasePath, branchName, bs)
    \/ \E codebasePath \in ViewPaths : SetCodebaseIndexing(codebasePath, 50)
    \/ \E codebasePath \in ViewPaths : SetCodebaseIndexed(codebasePath, IndexStats)
    \/ \E codebasePath \in ViewPaths :
         SetCodebaseIndexFailed(codebasePath, "disk full", Some(40))
    \/ \E codebasePath \in ViewPaths : RemoveCodebaseCompletely(codebasePath)

SpecViews == InitViews /\ [][NextViews]_vars

(***************************************************************************)
(* Collection names (core/identity/collection-migrator.ts)                 *)
(***************************************************************************)
\* md5(path.resolve(codebasePath)).substring(0, 8) behind the hybrid prefix
GenerateLegacyCollectionName(codebasePath) ==
    "hybrid_code_chunks_md5_8(" \o PathResolve(codebasePath) \o ")"
\* md5(canonicalId).substring(0, 12) behind the hybrid prefix
GenerateCanonicalCollectionName(canonicalId) ==
    "hybrid_code_chunks_md5_12(" \o canonicalId \o ")"

\* CollectionMigrator.resolveCollectionName: the legacy collection of the
\* path if it exists, else the collection of the canonical ID
ResolveCollectionName(existingCollections, rem, codebasePath) ==
    LET legacyName == GenerateLegacyCollectionName(codebasePath)
        canonicalName ==
            GenerateCanonicalCollectionName(
                ResolveIdentityIn(rem, PathResolve(codebasePath)).canonicalId)
    IN IF legacyName \in existingCollections THEN legacyName ELSE canonicalName

\* generateCollectionNames and the three returns of resolveCollectionName
NameResolution(name, isLegacy, rem, codebasePath) ==
    [collectionName |-> name,
     isLegacy |-> isLegacy,
     identity |-> ResolveIdentityIn(rem, PathResolve(codebasePath)),
     legacyName |-> GenerateLegacyCollectionName(codebasePath),
     canonicalName |->
        GenerateCanonicalCollectionName(
            ResolveIdentityIn(rem, PathResolve(codebasePath)).canonicalId)]

\* a resolveCollectionName that looks for the canonical collection first
CollectionNameResolutionCanonicalFirst(existingCollections, rem, codebasePath) ==
    LET names == NameResolution("", FALSE, rem, codebasePath)
    IN IF names.canonicalName \in existingCollections
       THEN [names EXCEPT !.collectionName = names.canonicalName]
       ELSE IF names.legacyName \in existingCollections
       THEN [names EXCEPT !.collectionName = names.legacyName, !.isLegacy = TRUE]
       ELSE [names EXCEPT !.collectionName = names.canonicalName]

\* CollectionMigrator.resolveCollectionName: the CollectionNameResolution it
\* returns
CollectionNameResolution(existingCollections, rem, codebasePath) ==
    LET names == NameResolution("", FALSE, rem, codebasePath)
    IN IF names.legacyName \in existingCollections
       THEN [names EXCEPT !.collectionName = names.legacyName, !.isLegacy = TRUE]
       ELSE IF names.canonicalName \in existingCollections
       THEN [names EXCEPT !.collectionName = names.canonicalName]
       ELSE [names EXCEPT !.collectionName = names.canonicalName]

\* findIndex: the first index of a mapping with this old name or this path,
\* 0 when there is none
ExistingIndex(ms, oldName, mappedPath) ==
    LET hits == {i \in DOMAIN ms : ms[i].oldName = oldName \/ ms[i].path = mappedPath}
    IN IF hits = {} THEN 0 ELSE CHOOSE i \in hits : \A j \in hits : i <= j

\* addMigrationMapping: a mapping found by old name or path is overwritten
\* by the new one, createdAt and migrated: false included, and keeps only
\* its migratedAt
AddMigrationMapping(ms, mapping, t) ==
    LET existingIndex == ExistingIndex(ms, mapping.oldName, mapping.path)
        newMapping == [oldName |-> mapping.oldName, newName |-> mapping.newName,
                       canonicalId |-> mapping.canonicalId, path |-> mapping.path,
                       createdAt |-> t, migrated |-> FALSE, migratedAt |-> None]
    IN IF existingIndex > 0
       THEN [ms EXCEPT ![existingIndex] =
                         [newMapping EXCEPT !.migratedAt = ms[existingIndex].migratedAt]]
       ELSE Append(ms, newMapping)

\* markMigrationComplete: the first mapping with this old name
MarkMigrationComplete(ms, oldName, t) ==
    LET hits == {i \in DOMAIN ms : ms[i].oldName = oldName}
    IN IF hits = {} THEN ms
       ELSE [ms EXCEPT ![CHOOSE i \in hits : \A j \in hits : i <= j] =
                         [@ EXCEPT !.migrated = TRUE, !.migratedAt = Some(t)]]

GetUnmigratedMappings(ms) == SelectSeq(ms, LAMBDA mapping : ~mapping.migrated)

\* loadMigrationState: the mappings of the file, none without a file
LoadMigrationState(f) == IF f = None THEN <<>> ELSE Val(f)

\* the other fields of the server stay as they are
MigratorOnly ==
    UNCHANGED <<envVars, registryVars, shared, phase, storeVars, pc, req, lockHolder,
                calls, search, httpVars>>

\* migrator.resolveCollectionName(codebasePath): a legacy resolution records
\* the mapping and saves the migration state
ResolveCollectionNameCall(codebasePath) ==
    LET r == CollectionNameResolution(collections, remote, codebasePath)
        ms == IF r.isLegacy
              THEN AddMigrationMapping(mappings,
                                       [oldName |-> r.legacyName,
                                        newName |-> r.canonicalName,
                                        canonicalId |-> r.identity.canonicalId,
                                        path |-> PathResolve(codebasePath)], now)
              ELSE mappings
    IN /\ mappings' = ms
       /\ migrationFile' = IF r.isLegacy THEN Some(ms) ELSE migrationFile
       /\ last' = [op |-> "resolveCollectionName", path |-> codebasePath, result |-> r]
       /\ UNCHANGED collections
       /\ MigratorOnly

\* migrator.recordMigration(oldName)
RecordMigration(oldName) ==
    /\ mappings' = MarkMigrationComplete(mappings, oldName, now)
    /\ migrationFile' = Some(mappings')
    /\ last' = [op |-> "recordMigration", oldName |-> oldName]
    /\ UNCHANGED collections
    /\ MigratorOnly

\* migrator.reload()
Reload ==
    /\ mappings' = LoadMigrationState(migrationFile)
    /\ last' = [op |-> "reload"]
    /\ UNCHANGED <<collections, migrationFile>>
    /\ MigratorOnly

\* migrator.addCollection(collectionName) after a collection was created
AddCollection(collectionName) ==
    /\ collections' = collections \cup {collectionName}
    /\ last' = [op |-> "addCollection", name |-> collectionName]
    /\ UNCHANGED migratorVars
    /\ MigratorOnly

\* migrator.removeCollection(collectionName) after a collection was dropped
RemoveCollection(collectionName) ==
    /\ collections' = collections \ {collectionName}
    /\ last' = [op |-> "removeCollection", name |-> collectionName]
    /\ UNCHANGED migratorVars
    /\ MigratorOnly

(***************************************************************************)
(* SpecCollections: one CollectionMigrator over the collections of two     *)
(* checkouts of one repository, created, dropped, resolved and migrated in *)
(* any order.                                                              *)
(***************************************************************************)
MigratorPaths == {"/a/main", "/a/feat"}
CollectionNames ==
    {GenerateLegacyCollectionName(p) : p \in MigratorPaths}
    \cup {GenerateCanonicalCollectionName(CanonicalIdFromCommit(RootCommit))}

InitCollections ==
    /\ remote = [r \in Repos |-> NoRemote]
    /\ git = GitHealthy
    /\ now = 0
    /\ exists = Paths
    /\ repositories = EmptyMap
    /\ pathToCanonicalId = EmptyMap
    /\ shared = {}
    /\ phase = "running"
    /\ file = None
    /\ StoreIsEmpty
    /\ HandlersIdle
    /\ HttpOff
    /\ last = NoCall

NextCollections ==
    \/ \E codebasePath \in MigratorPaths : ResolveCollectionNameCall(codebasePath)
    \/ \E codebasePath \in MigratorPaths :
         RecordMigration(GenerateLegacyCollectionName(codebasePath))
    \/ Reload
    \/ \E collectionName \in CollectionNames : AddCollection(collectionName)
    \/ \E collectionName \in CollectionNames : RemoveCollection(collectionName)

SpecCollections == InitCollections /\ [][NextCollections]_vars

(***************************************************************************)
(* search_all.  The handler (mcp/handlers.ts, handleSearchAll) is written  *)
(* after section 4.G of the specification: every collection is asked for   *)
(* `limit` results, the answers are concatenated as they come in, sorted   *)
(* by score descending with a stable tiebreak on (repoDisplayName,         *)
(* relativePath, startLine), and cut to `limit`.                           *)
(***************************************************************************)
\* the display names and the relative paths of the results, in the order of
\* string comparison
DisplayNames == <<"api", "web">>
RelativePaths == <<"a.ts", "b.ts">>
Rank(strings, str) == CHOOSE i \in DOMAIN strings : strings[i] = str

Result(repoDisplayName, relativePath, startLine, score) ==
    [repoDisplayName |-> repoDisplayName, relativePath |-> relativePath,
     startLine |-> startLine, score |-> score]

\* the comparator of the merge: a comes before b
ComesBefore(a, b) ==
    \/ a.score > b.score
    \/ /\ a.score = b.score
       /\ \/ Rank(DisplayNames, a.repoDisplayName) < Rank(DisplayNames, b.repoDisplayName)
          \/ /\ a.repoDisplayName = b.repoDisplayName
             /\ \/ Rank(RelativePaths, a.relativePath) < Rank(RelativePaths, b.relativePath)
                \/ /\ a.relativePath = b.relativePath
                   /\ a.startLine < b.startLine

\* stable insertion: x goes behind every result that does not come after it
RECURSIVE InsertResult(_, _)
InsertResult(sorted, x) ==
    IF sorted = <<>> THEN <<x>>
    ELSE IF ComesBefore(x, Head(sorted)) THEN <<x>> \o sorted
    ELSE <<Head(sorted)>> \o InsertResult(Tail(sorted), x)

RECURSIVE SortResults(_)
SortResults(results) ==
    IF results = <<>> THEN <<>>
    ELSE InsertResult(SortResults(SubSeq(results, 1, Len(results) - 1)),
                      results[Len(results)])

Take(seq, n) == SubSeq(seq, 1, IF Len(seq) < n THEN Len(seq) ELSE n)

\* the answers of the collections in `order`, each cut to `limit`, one after
\* the other
RECURSIVE Concatenate(_, _, _)
Concatenate(hits, order, limit) ==
    IF order = <<>> THEN <<>>
    ELSE Take(hits[Head(order)], limit) \o Concatenate(hits, Tail(order), limit)

\* a merge that cuts the concatenated answers without sorting them
MergeAndRankUnsorted(hits, order, limit) == Take(Concatenate(hits, order, limit), limit)

\* merge and rank
MergeAndRank(hits, order, limit) == Take(SortResults(Concatenate(hits, order, limit)), limit)

\* what a collection of the repository displayed as `name` may hold for the
\* query, best first
HitChoices(name) ==
    { <<>>,
      <<Result(name, "a.ts", 1, 2)>>,
      <<Result(name, "b.ts", 1, 2), Result(name, "a.ts", 20, 1)>>,
      <<Result(name, "a.ts", 20, 2), Result(name, "a.ts", 1, 2), Result(name, "b.ts", 1, 1)>> }
\* two repositories are displayed under the same name
RepoNameOf == [c \in SearchCollections |-> IF c = "c2" THEN "web" ELSE "api"]
Limits == {1, 2, 3}

\* "5 second timeout per collection", "15 second total timeout"
PerCollectionBudget == 5
GlobalBudget == 15
\* the seconds a call is followed for
MaxElapsed == 17

\* a call that is accepted at second `started` of its budget (the query is
\* embedded first) and fans out to every collection at once
NewSearch(limit, hits, started) ==
    [limit |-> limit, hits |-> hits, arrived |-> <<>>, pending |-> SearchCollections,
     failed |-> {}, skipped |-> {}, started |-> started, elapsed |-> started,
     result |-> None, summary |-> None]

\* the budget of a per-collection task is used up
BudgetExpired(s) == s.elapsed >= s.started + PerCollectionBudget

\* timers that never fire
DeadlinesIgnored(s) == TRUE

\* a second can pass: no timer is due.  The timer of a pending task is due
\* when its budget is used up, that of the call when the global budget is
DeadlinesKept(s) ==
    /\ s.elapsed < GlobalBudget
    /\ s.pending # {} => ~BudgetExpired(s)

SearchOnly ==
    UNCHANGED <<envVars, registryVars, shared, phase, storeVars, pc, req, lockHolder,
                collections, calls, migratorVars, httpVars>>

SearchRunning == search.limit > 0 /\ search.result = None

\* the per-collection search of collection c returns
CollectionAnswers(c) ==
    /\ SearchRunning
    /\ c \in search.pending
    /\ search' = [search EXCEPT !.arrived = Append(@, c), !.pending = @ \ {c}]
    /\ last' = [op |-> "search_all:answer", collection |-> c]
    /\ SearchOnly

\* the per-collection search of collection c throws
CollectionFails(c) ==
    /\ SearchRunning
    /\ c \in search.pending
    /\ search' = [search EXCEPT !.failed = @ \cup {c}, !.pending = @ \ {c}]
    /\ last' = [op |-> "search_all:error", collection |-> c]
    /\ SearchOnly

\* the budget of the task of collection c is used up: the task is cancelled
CollectionTimesOut(c) ==
    /\ SearchRunning
    /\ c \in search.pending
    /\ BudgetExpired(search)
    /\ search' = [search EXCEPT !.skipped = @ \cup {c}, !.pending = @ \ {c}]
    /\ last' = [op |-> "search_all:timeout", collection |-> c]
    /\ SearchOnly

\* one second passes while tasks are pending
SearchTick ==
    /\ SearchRunning
    /\ search.pending # {}
    /\ search.elapsed < MaxElapsed
    /\ DeadlinesKept(search)
    /\ search' = [search EXCEPT !.elapsed = @ + 1]
    /\ last' = [op |-> "search_all:tick"]
    /\ SearchOnly

\* a response in which one failed collection leaves no results
SearchOutcomePoisoned(s) ==
    [results |-> IF s.failed = {} THEN MergeAndRank(s.hits, s.arrived, s.limit) ELSE <<>>,
     summary |-> [collectionsQueried |-> Cardinality(SearchCollections),
                  collectionsSkippedByTimeout |-> s.skipped \cup s.pending,
                  collectionsFailed |-> s.failed,
                  totalResults |-> 0]]

\* the response: the merged results of the collections that answered and the
\* summary; tasks still pending are cancelled and count as skipped
SearchOutcome(s) ==
    [results |-> MergeAndRank(s.hits, s.arrived, s.limit),
     summary |-> [collectionsQueried |-> Cardinality(SearchCollections),
                  collectionsSkippedByTimeout |-> s.skipped \cup s.pending,
                  collectionsFailed |-> s.failed,
                  totalResults |-> Len(MergeAndRank(s.hits, s.arrived, s.limit))]]

\* the call returns: every task is settled, or the global budget is used up
\* and the tasks still pending are cancelled
SearchAllMerge ==
    /\ SearchRunning
    /\ search.pending = {} \/ search.elapsed >= GlobalBudget
    /\ search' = [search EXCEPT
                    !.result = Some(SearchOutcome(search).results),
                    !.summary = Some(SearchOutcome(search).summary),
                    !.pending = {},
                    !.skipped = @ \cup search.pending]
    /\ last' = [op |-> "search_all"]
    /\ SearchOnly

(***************************************************************************)
(* SpecSearch: one search_all call over three collections, for every limit *)
(* and every content of the collections, answered in any order or not at   *)
(* all.                                                                    *)
(***************************************************************************)
InitSearch ==
    /\ remote = [r \in Repos |-> NoRemote]
    /\ git = GitHealthy
    /\ now = 0
    /\ exists = Paths
    /\ repositories = EmptyMap
    /\ pathToCanonicalId = EmptyMap
    /\ shared = {}
    /\ phase = "running"
    /\ file = None
    /\ StoreIsEmpty
    /\ pc = [t \in Tasks |-> "idle"]
    /\ req = [t \in Tasks |-> NoRequest]
    /\ lockHolder = [id \in Ids |-> Free]
    /\ collections = SearchCollections
    /\ calls = 0
    /\ mappings = <<>>
    /\ migrationFile = None
    /\ \E limit \in Limits, h1 \in HitChoices(RepoNameOf["c1"]),
          h2 \in HitChoices(RepoNameOf["c2"]), h3 \in HitChoices(RepoNameOf["c3"]) :
         search = NewSearch(limit,
                            [c \in SearchCollections |->
                               IF c = "c1" THEN h1 ELSE IF c = "c2" THEN h2 ELSE h3], 0)
    /\ HttpOff
    /\ last = NoCall

NextSearch ==
    \/ \E c \in SearchCollections : CollectionAnswers(c)
    \/ \E c \in SearchCollections : CollectionFails(c)
    \/ SearchAllMerge

SpecSearch == InitSearch /\ [][NextSearch]_vars

(***************************************************************************)
(* SpecFanOut: one search_all call with limit 2 whose fan-out begins at    *)
(* second 0 or 12 of the call; every collection answers, throws or hangs,  *)
(* and the seconds pass.                                                   *)
(***************************************************************************)
StartDelays == {0, 12}
FanOutHits ==
    [c \in SearchCollections |->
       IF c = "c1" THEN <<Result("api", "a.ts", 1, 2)>>
       ELSE IF c = "c2" THEN <<Result("web", "b.ts", 1, 2), Result("web", "a.ts", 20, 1)>>
       ELSE <<Result("api", "b.ts", 1, 1)>>]

InitFanOut ==
    /\ remote = [r \in Repos |-> NoRemote]
    /\ git = GitHealthy
    /\ now = 0
    /\ exists = Paths
    /\ repositories = EmptyMap
    /\ pathToCanonicalId = EmptyMap
    /\ shared = {}
    /\ phase = "running"
    /\ file = None
    /\ StoreIsEmpty
    /\ pc = [t \in Tasks |-> "idle"]
    /\ req = [t \in Tasks |-> NoRequest]
    /\ lockHolder = [id \in Ids |-> Free]
    /\ collections = SearchCollections
    /\ calls = 0
    /\ mappings = <<>>
    /\ migrationFile = None
    /\ \E started \in StartDelays : search = NewSearch(2, FanOutHits, started)
    /\ HttpOff
    /\ last = NoCall

NextFanOut ==
    \/ \E c \in SearchCollections : CollectionAnswers(c)
    \/ \E c \in SearchCollections : CollectionFails(c)
    \/ \E c \in SearchCollections : CollectionTimesOut(c)
    \/ SearchTick
    \/ SearchAllMerge

SpecFanOut == InitFanOut /\ [][NextFanOut]_vars

(***************************************************************************)
(* The identity resolver on its own: checkouts whose git state is drawn    *)
(* from what a user can leave on disk.  The two checkouts of R1 may sit on *)
(* different histories (a worktree on an orphan branch) or on none, and    *)
(* each git command may fail or time out in each of them.                  *)
(***************************************************************************)
Checkouts == {p \in Paths : RepoOf(p) = "R1"}
GitStates ==
    {[root |-> [p \in Paths |-> IF p \in Checkouts THEN r[p] ELSE RootCommit],
      fails |-> [p \in Paths |-> IF p \in Checkouts THEN f[p] ELSE {}]] :
        r \in [Checkouts -> RootShas], f \in [Checkouts -> SUBSET GitCommands]}

InitIdentity ==
    /\ remote \in [Repos -> IdentityRemotes]
    /\ git \in GitStates
    /\ now = 0
    /\ exists = Paths
    /\ repositories = EmptyMap
    /\ pathToCanonicalId = EmptyMap
    /\ shared = {}
    /\ phase = "running"
    /\ file = None
    /\ StoreIsEmpty
    /\ HandlersIdle
    /\ HttpOff
    /\ last = NoCall

\* resolveIdentity(targetPath)
ResolveIdentityCall(raw) ==
    /\ last' = [op |-> "resolveIdentity", path |-> PathResolve(raw),
                result |-> ResolveIdentity(PathResolve(raw))]
    /\ UNCHANGED <<envVars, registryVars, shared, phase, storeVars, handlerVars, httpVars>>

\* normalizeGitUrl on each way of writing the URL of one repository
NormalizeGitUrlCall(u) ==
    /\ last' = [op |-> "normalizeGitUrl", url |-> u,
                ssh |-> NormalizeGitUrl(SshForm(u)),
                sshUrl |-> NormalizeGitUrl(SshUrlForm(u)),
                https |-> NormalizeGitUrl(HttpsForm(u))]
    /\ UNCHANGED <<envVars, registryVars, shared, phase, storeVars, handlerVars, httpVars>>

NextIdentity ==
    \/ \E raw \in RawPaths : ResolveIdentityCall(raw)
    \/ \E u \in RemoteUrls : NormalizeGitUrlCall(u)

SpecIdentity == InitIdentity /\ [][NextIdentity]_vars

(***************************************************************************)
(* index_codebase.  The handler (mcp/handlers.ts) is written after the     *)
(* specification: it takes the lock of the canonical ID, asks the registry *)
(* whether the repository is indexed, then either registers the path as an *)
(* alias and returns, or indexes into the collection the namer gives and   *)
(* registers the result.  The registry and the namer it calls are the      *)
(* code's.                                                                 *)
(***************************************************************************)
\* the tool calls a run of the server is followed for
MaxCalls == 4

\* a lock that is given to whoever asks
LockIsFreeAlways(holders, canonicalId) == TRUE

\* the per-canonical-ID lock can be taken
LockIsFree(holders, canonicalId) == holders[canonicalId] = Free

\* a call arrives: its path is resolved to a canonical ID
IndexRequest(t, raw, force) ==
    LET p == PathResolve(raw)
    IN /\ phase = "running"
       /\ pc[t] = "idle"
       /\ calls < MaxCalls
       /\ calls' = calls + 1
       /\ UNCHANGED <<migratorVars, search>>
       /\ pc' = [pc EXCEPT ![t] = "waiting"]
       /\ req' = [req EXCEPT ![t] = [path |-> p, force |-> force,
                                     canonicalId |-> ResolveIdentity(p).canonicalId]]
       /\ last' = [op |-> "index_codebase:request", task |-> t]
       /\ UNCHANGED <<envVars, registryVars, shared, phase, storeVars, lockHolder,
                      collections, httpVars>>

AcquireLock(t) ==
    /\ pc[t] = "waiting"
    /\ LockIsFree(lockHolder, req[t].canonicalId)
    /\ lockHolder' = [lockHolder EXCEPT ![req[t].canonicalId] = t]
    /\ pc' = [pc EXCEPT ![t] = "locked"]
    /\ last' = [op |-> "index_codebase:lock", task |-> t]
    /\ UNCHANGED <<envVars, registryVars, shared, phase, storeVars, req, collections,
                   calls, migratorVars, search, httpVars>>

\* the arrays a registry record and a store record hold in common show the
\* paths pushed through either
SharedArrays(snap, records, id) ==
    IF id \in shared /\ id \in DOMAIN snap /\ id \in DOMAIN records
    THEN [snap EXCEPT ![id].knownPaths = records[id].knownPaths,
                      ![id].worktrees = records[id].worktrees]
    ELSE snap
RegistrySees(records, snap, id) ==
    IF id \in shared /\ id \in DOMAIN snap /\ id \in DOMAIN records
    THEN [records EXCEPT ![id].knownPaths = snap[id].knownPaths,
                         ![id].worktrees = snap[id].worktrees]
    ELSE records

\* what index_codebase reports and counts
Percentages == {50}
FinalFiles == 3
FinalChunks == 3
IndexError == "embedding failed"
ReportIndexing(percentage) ==
    [NoBranchState EXCEPT !.status = Some("indexing"),
                          !.indexingPercentage = Some(percentage)]
ReportIndexed ==
    [NoBranchState EXCEPT !.status = Some("indexed"), !.indexedFiles = Some(FinalFiles),
                          !.totalChunks = Some(FinalChunks)]
ReportFailed ==
    [NoBranchState EXCEPT !.status = Some("indexfailed"), !.errorMessage = Some(IndexError)]

\* the store becomes st and the snapshot is saved
StoreBecomesAndSaves(st, repos) ==
    /\ snapRepositories' = repos
    /\ snapPathToCanonicalId' = st.pathToCanonicalId
    /\ LegacyBecomes(st)
    /\ file' = SnapshotFile(repos)

\* the gate: already indexed and not forced -> alias and return; else report
\* the repository as indexing at 0% and index.  Either way the snapshot is saved.
IndexGate(t) ==
    LET p == req[t].path
        identity == ResolveIdentity(p)
        id == identity.canonicalId
        res == ResolveIn(repositories, pathToCanonicalId, identity, p)
        alreadyIndexed == res.found /\ Val(res.record).isIndexed
        reg == RegisterIn(repositories, pathToCanonicalId, identity, p, NoOptions, now)
        name == ResolveCollectionName(collections, remote, p)
        st == UpdateRepositoryStateIn(CurrentStore, remote, p, "default",
                                      ReportIndexing(0), now)
    IN /\ pc[t] = "locked"
       /\ IF alreadyIndexed /\ ~req[t].force
          THEN /\ repositories' = reg[1]
               /\ pathToCanonicalId' = reg[2]
               /\ StoreBecomesAndSaves(CurrentStore,
                                       SharedArrays(snapRepositories, reg[1], id))
               /\ pc' = [pc EXCEPT ![t] = "idle"]
               /\ req' = [req EXCEPT ![t] = NoRequest]
               /\ lockHolder' = [lockHolder EXCEPT ![req[t].canonicalId] = Free]
               /\ collections' = collections
               /\ last' = [op |-> "index_codebase", task |-> t, path |-> p,
                           force |-> req[t].force, result |-> "already-indexed"]
          ELSE /\ pc' = [pc EXCEPT ![t] = "indexing"]
               /\ collections' = collections \cup {name}
               /\ StoreBecomesAndSaves(st, st.repositories)
               /\ repositories' = RegistrySees(repositories, st.repositories, id)
               /\ last' = [op |-> "index_codebase", task |-> t, path |-> p,
                           force |-> req[t].force, result |-> "indexing-started"]
               /\ UNCHANGED <<pathToCanonicalId, req, lockHolder>>
       /\ UNCHANGED <<envVars, shared, phase, calls, migratorVars, search, httpVars>>

\* indexing goes on: the percentage reached is reported
IndexProgress(t, percentage) ==
    LET p == req[t].path
        id == ResolveIdentity(p).canonicalId
        st == UpdateRepositoryStateIn(CurrentStore, remote, p, "default",
                                      ReportIndexing(percentage), now)
    IN /\ pc[t] = "indexing"
       /\ p \in DOMAIN indexingCodebases => indexingCodebases[p] < percentage
       /\ StoreBecomesAndSaves(st, st.repositories)
       /\ repositories' = RegistrySees(repositories, st.repositories, id)
       /\ last' = [op |-> "index_codebase:progress", task |-> t, path |-> p]
       /\ UNCHANGED <<envVars, pathToCanonicalId, shared, phase, handlerVars, httpVars>>

\* indexing ends well: the repository is reported as indexed with the final
\* counts and the path is registered as indexed under its collection
IndexComplete(t) ==
    LET p == req[t].path
        identity == ResolveIdentity(p)
        id == identity.canonicalId
        st == UpdateRepositoryStateIn(CurrentStore, remote, p, "default", ReportIndexed, now)
        options == [collectionName |-> Some(ResolveCollectionName(collections, remote, p)),
                    isIndexed |-> Some(TRUE), indexedFiles |-> Some(FinalFiles),
                    totalChunks |-> Some(FinalChunks)]
        reg == RegisterIn(RegistrySees(repositories, st.repositories, id),
                          pathToCanonicalId, identity, p, options, now)
    IN /\ pc[t] = "indexing"
       /\ repositories' = reg[1]
       /\ pathToCanonicalId' = reg[2]
       /\ StoreBecomesAndSaves(st, SharedArrays(st.repositories, reg[1], id))
       /\ pc' = [pc EXCEPT ![t] = "idle"]
       /\ req' = [req EXCEPT ![t] = NoRequest]
       /\ lockHolder' = [lockHolder EXCEPT ![req[t].canonicalId] = Free]
       /\ last' = [op |-> "index_codebase:done", task |-> t, path |-> p]
       /\ UNCHANGED <<envVars, shared, phase, collections, calls, migratorVars, search, httpVars>>

\* indexing fails: the repository is reported as failed with the error
\* message; nothing is registered
IndexFail(t) ==
    LET p == req[t].path
        id == ResolveIdentity(p).canonicalId
        st == UpdateRepositoryStateIn(CurrentStore, remote, p, "default", ReportFailed, now)
    IN /\ pc[t] = "indexing"
       /\ StoreBecomesAndSaves(st, st.repositories)
       /\ repositories' = RegistrySees(repositories, st.repositories, id)
       /\ pc' = [pc EXCEPT ![t] = "idle"]
       /\ req' = [req EXCEPT ![t] = NoRequest]
       /\ lockHolder' = [lockHolder EXCEPT ![req[t].canonicalId] = Free]
       /\ last' = [op |-> "index_codebase:failed", task |-> t, path |-> p]
       /\ UNCHANGED <<envVars, pathToCanonicalId, shared, phase, collections, calls, migratorVars, search,
                      httpVars>>

(***************************************************************************)
(* clear_index, after the specification: under the lock of the canonical   *)
(* ID, resolve the record, drop its collection, remove the record from the *)
(* registry and the path from the snapshot store, and save the snapshot.   *)
(***************************************************************************)
ClearIndex(t, raw) ==
    LET p == PathResolve(raw)
        res == ResolveIn(repositories, pathToCanonicalId, ResolveIdentity(p), p)
        id == Val(res.record).canonicalId
        removed == RemoveByCanonicalIdIn(repositories, pathToCanonicalId, id)
        name == IF IsSome(Val(res.record).collectionName)
                THEN Val(Val(res.record).collectionName)
                ELSE ResolveCollectionName(collections, remote, p)
    IN /\ phase = "running"
       /\ pc[t] = "idle"
       /\ calls < MaxCalls
       /\ calls' = calls + 1
       /\ UNCHANGED <<migratorVars, search>>
       /\ IF res.found
          THEN /\ LockIsFree(lockHolder, id)
               /\ collections' = collections \ {name}
               /\ repositories' = removed[1]
               /\ pathToCanonicalId' = removed[2]
               /\ shared' = shared \ {id}
               /\ LegacyBecomes(RemoveCodebaseCompletelyIn(CurrentStore, p))
               /\ file' = SnapshotFile(snapRepositories)
               /\ last' = [op |-> "clear_index", task |-> t, path |-> p, found |-> TRUE,
                           canonicalId |-> id, knownPaths |-> Val(res.record).knownPaths]
          ELSE /\ last' = [op |-> "clear_index", task |-> t, path |-> p, found |-> FALSE,
                           canonicalId |-> "", knownPaths |-> <<>>]
               /\ UNCHANGED <<registryVars, shared, file, legacyVars, collections>>
       /\ UNCHANGED <<envVars, phase, snapRepositories, snapPathToCanonicalId,
                      pc, req, lockHolder, httpVars>>

(***************************************************************************)
(* SpecIndex: concurrent index_codebase calls on the checkouts of one      *)
(* repository and a clone, over a registry that starts empty and a vector  *)
(* store that may hold a collection from before canonical IDs.             *)
(***************************************************************************)
InitIndex ==
    /\ remote \in [Repos -> Remotes]
    /\ git = GitHealthy
    /\ now = 0
    /\ exists = Paths
    /\ repositories = EmptyMap
    /\ pathToCanonicalId = EmptyMap
    /\ shared = {}
    /\ phase = "running"
    /\ file = None
    /\ StoreIsEmpty
    /\ pc = [t \in Tasks |-> "idle"]
    /\ req = [t \in Tasks |-> NoRequest]
    /\ lockHolder = [id \in Ids |-> Free]
    /\ collections \in {{}, {GenerateLegacyCollectionName("/a/main")}}
    /\ calls = 0
    /\ mappings = <<>>
    /\ migrationFile = None
    /\ search = NoSearch
    /\ HttpOff
    /\ last = NoCall

\* the sync loop re-indexes what is indexed; sessions ask for anything
NextIndex ==
    \/ \E t \in Tasks \ {"sync"}, raw \in RawPaths, force \in BOOLEAN :
         IndexRequest(t, raw, force)
    \/ \E p \in DOMAIN pathToCanonicalId :
         /\ HasRecord(repositories, pathToCanonicalId[p])
         /\ repositories[pathToCanonicalId[p]].isIndexed
         /\ IndexRequest("sync", p, TRUE)
    \/ \E t \in Tasks : AcquireLock(t)
    \/ \E t \in Tasks : IndexGate(t)
    \/ \E t \in Tasks : IndexComplete(t)
    \/ \E t \in Tasks : IndexFail(t)

SpecIndex == InitIndex /\ [][NextIndex]_vars

(***************************************************************************)
(* SpecTools: the server starts over no snapshot file or over a v3 file,   *)
(* and the pipe session calls index_codebase and clear_index on the        *)
(* checkouts, one call after the other.                                    *)
(***************************************************************************)
InitTools ==
    /\ remote = [r \in Repos |-> NoRemote]
    /\ git = GitHealthy
    /\ now = 0
    /\ exists = Paths
    /\ repositories = EmptyMap
    /\ pathToCanonicalId = EmptyMap
    /\ shared = {}
    /\ phase = "new"
    /\ file \in {None, Some(FileV3One), Some(FileV3Two)}
    /\ StoreIsEmpty
    /\ HandlersIdle
    /\ HttpOff
    /\ last = NoCall

\* search_all, discovery of the fan-out targets (section 4.G): the
\* collections of the indexed records of the registry and the collections the
\* vector store lists, each name once
CollectionOf(records, id) ==
    IF IsSome(records[id].collectionName) THEN Val(records[id].collectionName)
    ELSE GenerateCanonicalCollectionName(id)
IndexedCollections(records) ==
    {CollectionOf(records, id) : id \in {i \in DOMAIN records : records[i].isIndexed}}
FanOutTargets(records, live) == IndexedCollections(records) \cup live

\* an attribution that knows no repository
RepoOfCollectionUnknown(records, name) == None

\* the canonicalRepoId of the results of a collection: that of the indexed
\* record that refers to the collection; a collection that only the vector
\* store lists has none
RepoOfCollection(records, name) ==
    LET ids == {i \in DOMAIN records : records[i].isIndexed /\ CollectionOf(records, i) = name}
    IN IF ids = {} THEN None ELSE Some(CHOOSE i \in ids : TRUE)

\* search_all reads the registry and the vector store and attributes the
\* results of every target
SearchAllDiscover(t) ==
    /\ phase = "running"
    /\ pc[t] = "idle"
    /\ last' = [op |-> "search_all:discover", task |-> t,
                canonicalRepoId |->
                   [c \in FanOutTargets(repositories, collections) |->
                      RepoOfCollection(repositories, c)]]
    /\ UNCHANGED <<envVars, registryVars, shared, phase, storeVars, handlerVars, httpVars>>

NextTools ==
    \/ SearchAllDiscover("stdio")
    \/ Construct
    \/ \E raw \in Paths, force \in BOOLEAN : IndexRequest("stdio", raw, force)
    \/ AcquireLock("stdio")
    \/ IndexGate("stdio")
    \/ \E percentage \in Percentages : IndexProgress("stdio", percentage)
    \/ IndexComplete("stdio")
    \/ IndexFail("stdio")
    \/ \E raw \in Paths : ClearIndex("stdio", raw)

SpecTools == InitTools /\ [][NextTools]_vars

(***************************************************************************)
(* Authentication (mcp/middleware/auth.ts)                                 *)
(***************************************************************************)
\* String.prototype.toLowerCase on the scheme words that are sent
Lower(s) ==
    CASE s = "Bearer" -> "bearer"
      [] s = "BEARER" -> "bearer"
      [] s = "Basic" -> "basic"
      [] OTHER -> s

\* String.prototype.trim on the values MCP_AUTH_TOKEN is given
Trim(s) == IF s = "  " THEN "" ELSE s

\* an Authorization header is the sequence of the pieces that split(' ')
\* cuts it into; None is a request without the header
AuthHeaders ==
    { None,
      Some(<<"Bearer", "tok">>), Some(<<"BEARER", "tok">>), Some(<<"Basic", "tok">>),
      Some(<<"Bearer", "wrong">>), Some(<<"Bearer">>), Some(<<"tok">>),
      Some(<<"Bearer", "tok", "x">>), Some(<<"Bearer", "", "tok">>) }

\* an authenticate that trusts any bearer token
AuthenticateAnyToken(token, authHeader) ==
    IF ~IsSome(authHeader) THEN FALSE
    ELSE LET parts == Val(authHeader)
         IN ~(Len(parts) # 2 \/ Lower(parts[1]) # "bearer")

\* AuthMiddleware.authenticate: is the request authenticated
Authenticate(token, authHeader) ==
    IF ~IsSome(authHeader) THEN FALSE
    ELSE LET parts == Val(authHeader)
         IN IF Len(parts) # 2 \/ Lower(parts[1]) # "bearer" THEN FALSE
            ELSE parts[2] = token

\* AuthMiddleware.requiresAuth and RateLimiter.shouldLimit: excludePaths is ['/health']
RequiresAuth(pathname) == pathname # "/health"
\* a limiter that excludes no path
ShouldLimitEveryPath(pathname) == TRUE
ShouldLimit(pathname) == pathname # "/health"

\* the X-Forwarded-For header of a request: None, or the comma-separated
\* values it carries, trimmed (<<>> is the empty header)
ForwardedFors == {None, Some(<<"10.0.0.2", "10.0.0.1">>)}

\* AuthMiddleware.getClientIp: the first value of X-Forwarded-For, else the
\* peer address of the socket
GetClientIp(forwardedFor, remoteAddress) ==
    IF IsSome(forwardedFor) /\ Val(forwardedFor) # <<>>
    THEN Val(forwardedFor)[1]
    ELSE IF IsSome(remoteAddress) THEN Val(remoteAddress) ELSE "unknown"

\* a validateAuthToken that takes any string that is set
ValidateAuthTokenNoTrim(transportMode, token) ==
    IF transportMode = "stdio" THEN [exit |-> FALSE, token |-> None]
    ELSE IF ~IsSome(token) \/ Val(token) = ""
    THEN [exit |-> TRUE, token |-> None]
    ELSE [exit |-> FALSE, token |-> token]

\* validateAuthToken: null for stdio, process.exit(2) for a token that is
\* unset, empty or blank, else the token
ValidateAuthToken(transportMode, token) ==
    IF transportMode = "stdio" THEN [exit |-> FALSE, token |-> None]
    ELSE IF ~IsSome(token) \/ Val(token) = "" \/ Trim(Val(token)) = ""
    THEN [exit |-> TRUE, token |-> None]
    ELSE [exit |-> FALSE, token |-> token]

(***************************************************************************)
(* Rate limiting (mcp/middleware/rate-limit.ts)                            *)
(***************************************************************************)
WindowMs == 60000
MaxNow == 60000
MaxCount == 3
ClockSteps == {20000, 39500}

\* parseInt(s, 10) on the values MCP_RATE_LIMIT is given
ParseInt(s) == CASE s = "0" -> 0 [] s = "1" -> 1 [] s = "2" -> 2 [] OTHER -> 60

\* RateLimiter constructor: the server passes no rateLimit option
RequestsPerMinute(c) == ParseInt(IF IsSome(c.rateLimit) THEN Val(c.rateLimit) ELSE "60")

\* Math.ceil(a / b) for a > 0
CeilDiv(a, b) == (a + b - 1) \div b

\* a check that opens the next window only after the reset time has passed
CheckStrictlyAfter(lims, clientIp, t, requestsPerMinute) ==
    IF clientIp \notin DOMAIN lims \/ t > lims[clientIp].resetTime
    THEN [limits |-> MapPut(lims, clientIp, [count |-> 1, resetTime |-> t + WindowMs]),
          allowed |-> TRUE, remaining |-> requestsPerMinute - 1, retryAfter |-> None]
    ELSE LET entry == [lims[clientIp] EXCEPT !.count = @ + 1]
         IN IF entry.count > requestsPerMinute
            THEN [limits |-> MapPut(lims, clientIp, entry),
                  allowed |-> FALSE, remaining |-> 0,
                  retryAfter |-> Some(CeilDiv(entry.resetTime - t, 1000))]
            ELSE [limits |-> MapPut(lims, clientIp, entry),
                  allowed |-> TRUE, remaining |-> requestsPerMinute - entry.count,
                  retryAfter |-> None]

\* a check that holds the sources that share the table against one budget
CheckOneWindow(lims, clientIp, t, requestsPerMinute) ==
    IF clientIp \notin DOMAIN lims \/ t >= lims[clientIp].resetTime
    THEN [limits |-> MapPut(lims, clientIp, [count |-> 1, resetTime |-> t + WindowMs]),
          allowed |-> TRUE, remaining |-> requestsPerMinute - 1, retryAfter |-> None]
    ELSE LET entry == [lims[clientIp] EXCEPT !.count = @ + 1]
             others == Cardinality(DOMAIN lims \ {clientIp})
         IN IF entry.count + others > requestsPerMinute
            THEN [limits |-> MapPut(lims, clientIp, entry),
                  allowed |-> FALSE, remaining |-> 0,
                  retryAfter |-> Some(CeilDiv(entry.resetTime - t, 1000))]
            ELSE [limits |-> MapPut(lims, clientIp, entry),
                  allowed |-> TRUE, remaining |-> requestsPerMinute - entry.count,
                  retryAfter |-> None]

\* RateLimiter.check: the table after the call and the RateLimitResult
Check(lims, clientIp, t, requestsPerMinute) ==
    IF clientIp \notin DOMAIN lims \/ t >= lims[clientIp].resetTime
    THEN [limits |-> MapPut(lims, clientIp, [count |-> 1, resetTime |-> t + WindowMs]),
          allowed |-> TRUE, remaining |-> requestsPerMinute - 1, retryAfter |-> None]
    ELSE LET entry == [lims[clientIp] EXCEPT !.count = @ + 1]
         IN IF entry.count > requestsPerMinute
            THEN [limits |-> MapPut(lims, clientIp, entry),
                  allowed |-> FALSE, remaining |-> 0,
                  retryAfter |-> Some(CeilDiv(entry.resetTime - t, 1000))]
            ELSE [limits |-> MapPut(lims, clientIp, entry),
                  allowed |-> TRUE, remaining |-> requestsPerMinute - entry.count,
                  retryAfter |-> None]

\* RateLimiter.cleanup: the table without its expired entries
CleanupIn(lims, t) == [ip \in {i \in DOMAIN lims : ~(t >= lims[i].resetTime)} |-> lims[ip]]

(***************************************************************************)
(* The process and its HTTP transport (mcp/index.ts, mcp/server.ts,        *)
(* mcp/transports/http-transport.ts)                                       *)
(***************************************************************************)
Transports == {"stdio", "http", "both"}
Methods == {"GET", "POST", "DELETE", "OPTIONS"}
Pathnames == {"/health", "/mcp", "/other"}
ClientIps == {"10.0.0.1", "10.0.0.2"}
SessionIds == {"s1", "s2"}
WwwAuthenticate == "Bearer realm=MCP Server"

NoResponse ==
    [status |-> 0, wwwAuthenticate |-> None, retryAfter |-> None,
     rateLimitLimit |-> None, rateLimitRemaining |-> None, rateLimitReset |-> None,
     reached |-> "none", checked |-> FALSE, handledBy |-> None, error |-> None]

\* randomUUID(): an ID that was never generated before
RandomUUID(ids) == CHOOSE s \in SessionIds : s \notin Elems(ids)

\* ContextMcpServer.server, the instance the stdio transport is connected to
MainServer == [instance |-> 0, toolHandlers |-> "toolHandlers"]

\* createMcpServer: the n-th instance it makes; setupTools gives it the
\* handlers of the one ToolHandlers object, which holds the registry and the
\* snapshot store
CreateMcpServer(n) == [instance |-> n, toolHandlers |-> "toolHandlers"]

\* a transport that calls the factory once and connects every session to
\* that instance
SessionServersShared(servers, ids, sess) ==
    [s \in sess |-> CreateMcpServer(1)]

\* the HTTP transport of server.ts (mcpServerFactory): a new session is
\* connected to a new instance from the factory, an open one stays on its
\* instance, a closed one is released
SessionServers(servers, ids, sess) ==
    [s \in sess |-> IF s \in DOMAIN servers THEN servers[s]
                    ELSE CreateMcpServer(Len(ids) + 1)]

\* a handleMcpRequest whose sessions survive a DELETE
HandleMcpRequestKeepsClosed(sess, ids, method, sessionId, isInitialize) ==
    LET none == [status |-> 0, sessions |-> sess, issued |-> ids,
                 handledBy |-> None, error |-> None]
    IN IF IsSome(sessionId) /\ Val(sessionId) \in sess
       THEN [none EXCEPT !.status = 200, !.handledBy = sessionId]
       ELSE IF ~IsSome(sessionId) /\ method = "POST" /\ isInitialize
       THEN [none EXCEPT !.status = 200,
                         !.handledBy = Some(RandomUUID(ids)),
                         !.sessions = sess \cup {RandomUUID(ids)},
                         !.issued = Append(ids, RandomUUID(ids))]
       ELSE IF IsSome(sessionId)
       THEN [none EXCEPT !.status = 404, !.error = Some("Session not found")]
       ELSE [none EXCEPT !.status = 400,
                         !.error = Some("Bad Request: No valid session ID provided")]

\* a handleMcpRequest that opens a session under an ID it does not know
HandleMcpRequestAdoptsUnknown(sess, ids, method, sessionId, isInitialize) ==
    LET none == [status |-> 0, sessions |-> sess, issued |-> ids,
                 handledBy |-> None, error |-> None]
    IN IF IsSome(sessionId) /\ Val(sessionId) \in sess
       THEN [none EXCEPT !.status = 200, !.handledBy = sessionId,
                         !.sessions = IF method = "DELETE"
                                      THEN sess \ {Val(sessionId)} ELSE sess]
       ELSE IF ~IsSome(sessionId) /\ method = "POST" /\ isInitialize
       THEN [none EXCEPT !.status = 200,
                         !.handledBy = Some(RandomUUID(ids)),
                         !.sessions = sess \cup {RandomUUID(ids)},
                         !.issued = Append(ids, RandomUUID(ids))]
       ELSE IF IsSome(sessionId)
       THEN [none EXCEPT !.status = 200, !.handledBy = sessionId,
                         !.sessions = sess \cup {Val(sessionId)},
                         !.issued = PushNew(ids, Val(sessionId))]
       ELSE [none EXCEPT !.status = 400,
                         !.error = Some("Bad Request: No valid session ID provided")]

\* handleMcpRequest: the status it answers with, the transport that handles
\* the request, and the sessions it leaves.  The transport of a new session
\* generates its ID and enters the map (onsessioninitialized); the transport
\* of a DELETE closes itself and leaves the map (onclose).
HandleMcpRequest(sess, ids, method, sessionId, isInitialize) ==
    LET none == [status |-> 0, sessions |-> sess, issued |-> ids,
                 handledBy |-> None, error |-> None]
    IN IF IsSome(sessionId) /\ Val(sessionId) \in sess
       THEN [none EXCEPT !.status = 200, !.handledBy = sessionId,
                         !.sessions = IF method = "DELETE"
                                      THEN sess \ {Val(sessionId)} ELSE sess]
       ELSE IF ~IsSome(sessionId) /\ method = "POST" /\ isInitialize
       THEN [none EXCEPT !.status = 200,
                         !.handledBy = Some(RandomUUID(ids)),
                         !.sessions = sess \cup {RandomUUID(ids)},
                         !.issued = Append(ids, RandomUUID(ids))]
       ELSE IF IsSome(sessionId)
       THEN [none EXCEPT !.status = 404, !.error = Some("Session not found")]
       ELSE [none EXCEPT !.status = 400,
                         !.error = Some("Bad Request: No valid session ID provided")]

\* a request handler that counts the request before it authenticates it
PipelineLimitsFirst(method, pathname, authHeader, clientIp, sessionId, isInitialize) ==
    LET authOn == IsSome(cfg.token) /\ Val(cfg.token) # ""
        rate == Check(limits, clientIp, now, RequestsPerMinute(cfg))
        limited == [NoResponse EXCEPT
                      !.checked = TRUE,
                      !.rateLimitLimit = Some(RequestsPerMinute(cfg)),
                      !.rateLimitRemaining = Some(rate.remaining),
                      !.rateLimitReset = rate.retryAfter]
        base == IF ShouldLimit(pathname) THEN limited ELSE NoResponse
        lims == IF ShouldLimit(pathname) THEN rate.limits ELSE limits
        mcp == HandleMcpRequest(sessions, issued, method, sessionId, isInitialize)
        same == [response |-> NoResponse, limits |-> limits, sessions |-> sessions,
                 issued |-> issued, serverOf |-> serverOf]
    IN IF method = "OPTIONS"
       THEN [same EXCEPT !.response = [NoResponse EXCEPT !.status = 204]]
       ELSE IF authOn /\ RequiresAuth(pathname) /\ ~Authenticate(Val(cfg.token), authHeader)
       THEN [same EXCEPT !.response = [NoResponse EXCEPT
                                         !.status = 401,
                                         !.wwwAuthenticate = Some(WwwAuthenticate)],
                         !.limits = lims]
       ELSE IF ShouldLimit(pathname) /\ ~rate.allowed
       THEN [same EXCEPT
               !.response =
                   [limited EXCEPT
                      !.status = 429,
                      !.retryAfter = Some(IF IsSome(rate.retryAfter)
                                          THEN Val(rate.retryAfter) ELSE 60),
                      !.rateLimitRemaining = Some(0),
                      !.rateLimitReset = Some(IF IsSome(rate.retryAfter)
                                              THEN Val(rate.retryAfter) ELSE 60)],
               !.limits = lims]
       ELSE IF pathname = "/health"
       THEN [same EXCEPT !.response = [base EXCEPT !.status = 200, !.reached = "health"],
                         !.limits = lims]
       ELSE IF pathname = "/mcp"
       THEN [same EXCEPT
               !.response = [base EXCEPT !.status = mcp.status, !.reached = "mcp",
                                         !.handledBy = mcp.handledBy,
                                         !.error = mcp.error],
               !.limits = lims,
               !.sessions = mcp.sessions,
               !.issued = mcp.issued,
               !.serverOf = SessionServers(serverOf, issued, mcp.sessions)]
       ELSE [same EXCEPT !.response = [base EXCEPT !.status = 404,
                                                   !.error = Some("Not Found")],
                         !.limits = lims]

\* the request listener of the HTTP server: the response, the rate-limit
\* table and the sessions it leaves
Pipeline(method, pathname, authHeader, clientIp, sessionId, isInitialize) ==
    LET authOn == IsSome(cfg.token) /\ Val(cfg.token) # ""
        rate == Check(limits, clientIp, now, RequestsPerMinute(cfg))
        limited == [NoResponse EXCEPT
                      !.checked = TRUE,
                      !.rateLimitLimit = Some(RequestsPerMinute(cfg)),
                      !.rateLimitRemaining = Some(rate.remaining),
                      !.rateLimitReset = rate.retryAfter]
        base == IF ShouldLimit(pathname) THEN limited ELSE NoResponse
        lims == IF ShouldLimit(pathname) THEN rate.limits ELSE limits
        mcp == HandleMcpRequest(sessions, issued, method, sessionId, isInitialize)
        same == [response |-> NoResponse, limits |-> limits, sessions |-> sessions,
                 issued |-> issued, serverOf |-> serverOf]
    IN IF method = "OPTIONS"
       THEN [same EXCEPT !.response = [NoResponse EXCEPT !.status = 204]]
       ELSE IF authOn /\ RequiresAuth(pathname) /\ ~Authenticate(Val(cfg.token), authHeader)
       THEN [same EXCEPT !.response = [NoResponse EXCEPT
                                         !.status = 401,
                                         !.wwwAuthenticate = Some(WwwAuthenticate)]]
       ELSE IF ShouldLimit(pathname) /\ ~rate.allowed
       THEN [same EXCEPT
               !.response =
                   [limited EXCEPT
                      !.status = 429,
                      !.retryAfter = Some(IF IsSome(rate.retryAfter)
                                          THEN Val(rate.retryAfter) ELSE 60),
                      !.rateLimitRemaining = Some(0),
                      !.rateLimitReset = Some(IF IsSome(rate.retryAfter)
                                              THEN Val(rate.retryAfter) ELSE 60)],
               !.limits = lims]
       ELSE IF pathname = "/health"
       THEN [same EXCEPT !.response = [base EXCEPT !.status = 200, !.reached = "health"],
                         !.limits = lims]
       ELSE IF pathname = "/mcp"
       THEN [same EXCEPT
               !.response = [base EXCEPT !.status = mcp.status, !.reached = "mcp",
                                         !.handledBy = mcp.handledBy,
                                         !.error = mcp.error],
               !.limits = lims,
               !.sessions = mcp.sessions,
               !.issued = mcp.issued,
               !.serverOf = SessionServers(serverOf, issued, mcp.sessions)]
       ELSE [same EXCEPT !.response = [base EXCEPT !.status = 404,
                                                   !.error = Some("Not Found")],
                         !.limits = lims]

idleVars == <<envVars, registryVars, shared, phase, storeVars, handlerVars>>

\* parseCliArgs: a transport that is none of stdio, http, both
ExitInvalidTransport ==
    /\ proc = "starting"
    /\ cfg.transport \notin Transports
    /\ proc' = "exited"
    /\ exitCode' = Some(1)
    /\ last' = [op |-> "exit"]
    /\ UNCHANGED <<idleVars, listening, stdio, cfg, limits, sessions, issued, serverOf,
                   shutdowns>>

\* main: --help prints the usage and exits before anything is started
ShowHelp ==
    /\ proc = "starting"
    /\ cfg.transport \in Transports
    /\ cfg.help
    /\ proc' = "exited"
    /\ exitCode' = Some(0)
    /\ last' = [op |-> "exit"]
    /\ UNCHANGED <<idleVars, listening, stdio, cfg, limits, sessions, issued, serverOf,
                   shutdowns>>

UseHttp == cfg.transport \in {"http", "both"}
UseStdio == cfg.transport \in {"stdio", "both"}

\* ContextMcpServer.start, when validateAuthToken ends the process
StartExitNoToken ==
    /\ proc = "starting"
    /\ cfg.transport \in Transports
    /\ ~cfg.help
    /\ UseHttp
    /\ ValidateAuthToken(cfg.transport, cfg.token).exit
    /\ proc' = "exited"
    /\ exitCode' = Some(2)
    /\ last' = [op |-> "exit"]
    /\ UNCHANGED <<idleVars, listening, stdio, cfg, limits, sessions, issued, serverOf,
                   shutdowns>>

\* ContextMcpServer.start, when listen() fails (the port is taken): start
\* rejects and main's catch exits with 1
StartListenFails ==
    /\ proc = "starting"
    /\ cfg.transport \in Transports
    /\ ~cfg.help
    /\ UseHttp
    /\ ~ValidateAuthToken(cfg.transport, cfg.token).exit
    /\ proc' = "exited"
    /\ exitCode' = Some(1)
    /\ last' = [op |-> "exit"]
    /\ UNCHANGED <<idleVars, listening, stdio, cfg, limits, sessions, issued, serverOf,
                   shutdowns>>

\* ContextMcpServer.start, to its end
StartServe ==
    /\ proc = "starting"
    /\ cfg.transport \in Transports
    /\ ~cfg.help
    /\ UseHttp => ~ValidateAuthToken(cfg.transport, cfg.token).exit
    /\ proc' = "running"
    /\ listening' = UseHttp
    /\ stdio' = UseStdio
    /\ cfg' = IF UseHttp
              THEN [cfg EXCEPT !.token = ValidateAuthToken(cfg.transport, cfg.token).token]
              ELSE cfg
    /\ last' = [op |-> "start"]
    /\ UNCHANGED <<idleVars, exitCode, limits, sessions, issued, serverOf, shutdowns>>

\* one request served by the HTTP server
HttpRequest(method, pathname, authHeader, clientIp, sessionId, isInitialize) ==
    LET out == Pipeline(method, pathname, authHeader, clientIp, sessionId, isInitialize)
    IN /\ proc = "running"
       /\ listening
       /\ (~IsSome(sessionId) /\ method = "POST" /\ isInitialize) =>
            Elems(issued) # SessionIds
       /\ out.limits # limits => out.limits[clientIp].count <= MaxCount
       /\ limits' = out.limits
       /\ sessions' = out.sessions
       /\ issued' = out.issued
       /\ serverOf' = out.serverOf
       /\ last' = [op |-> "http", method |-> method, pathname |-> pathname,
                   authHeader |-> authHeader, clientIp |-> clientIp,
                   sessionId |-> sessionId, isInitialize |-> isInitialize,
                   entry |-> IF clientIp \in DOMAIN limits THEN Some(limits[clientIp]) ELSE None,
                   response |-> out.response]
       /\ UNCHANGED <<idleVars, proc, exitCode, listening, stdio, cfg, shutdowns>>

\* the periodic sweep of the rate-limit table
Cleanup ==
    /\ proc = "running"
    /\ listening
    /\ limits' = CleanupIn(limits, now)
    /\ last' = [op |-> "cleanup"]
    /\ UNCHANGED <<idleVars, proc, exitCode, listening, stdio, cfg, sessions, issued,
                   serverOf, shutdowns>>

AdvanceClock(d) ==
    /\ now + d <= MaxNow
    /\ now' = now + d
    /\ last' = [op |-> "clock"]
    /\ UNCHANGED <<remote, exists, git, registryVars, shared, phase, storeVars, handlerVars,
                   httpVars>>

\* the process as it is launched
Launched(c) ==
    /\ remote = [r \in Repos |-> NoRemote]
    /\ git = GitHealthy
    /\ now = 0
    /\ exists = Paths
    /\ repositories = EmptyMap
    /\ pathToCanonicalId = EmptyMap
    /\ shared = {}
    /\ phase = "running"
    /\ file = None
    /\ StoreIsEmpty
    /\ HandlersIdle
    /\ proc = "starting"
    /\ exitCode = None
    /\ listening = FALSE
    /\ stdio = FALSE
    /\ cfg = c
    /\ limits = EmptyMap
    /\ sessions = {}
    /\ issued = <<>>
    /\ serverOf = EmptyMap
    /\ shutdowns = <<>>
    /\ last = NoCall

(***************************************************************************)
(* SpecHttp: the process is launched with any transport, with or without   *)
(* --help, with MCP_AUTH_TOKEN unset, empty, blank or set; once the HTTP   *)
(* server listens it is sent requests with every kind of Authorization     *)
(* header.                                                                 *)
(***************************************************************************)
Cfgs ==
    [transport : Transports \cup {"ws"}, help : BOOLEAN,
     token : {None, Some(""), Some("  "), Some("tok")}, rateLimit : {Some("2")}]

\* the Mcp-Session-Id header of a request, and whether its body is an initialize
SessionHeaders ==
    {<<None, TRUE>>, <<None, FALSE>>} \cup {<<Some(s), FALSE>> : s \in SessionIds}

InitHttp == \E c \in Cfgs : Launched(c)

NextHttp ==
    \/ ExitInvalidTransport
    \/ ShowHelp
    \/ StartExitNoToken
    \/ StartListenFails
    \/ StartServe
    \/ \E method \in Methods, pathname \in Pathnames, authHeader \in AuthHeaders :
         \E body \in IF pathname = "/mcp" THEN SessionHeaders ELSE {<<None, FALSE>>} :
           HttpRequest(method, pathname, authHeader, "10.0.0.1", body[1], body[2])

SpecHttp == InitHttp /\ [][NextHttp]_vars

(***************************************************************************)
(* SpecRate: the HTTP server, with a budget of 0, 1 or 2 requests per      *)
(* minute, is sent authenticated requests from two addresses while the     *)
(* clock runs and the table is swept.                                      *)
(***************************************************************************)
RateCfgs ==
    [transport : {"http"}, help : {FALSE}, token : {Some("tok")},
     rateLimit : {Some("0"), Some("1"), Some("2")}]

InitRate == \E c \in RateCfgs : Launched(c)

NextRate ==
    \/ StartServe
    \/ \E pathname \in {"/mcp", "/health"}, forwardedFor \in ForwardedFors,
          remoteAddress \in ClientIps :
         HttpRequest("POST", pathname, Some(<<"Bearer", "tok">>),
                     GetClientIp(forwardedFor, Some(remoteAddress)), None, FALSE)
    \/ \E d \in ClockSteps : AdvanceClock(d)
    \/ Cleanup

SpecRate == InitRate /\ [][NextRate]_vars

(***************************************************************************)
(* The background sync loop.  start() calls startBackgroundSync() without  *)
(* awaiting or guarding it, and the entry point listens to SIGINT and      *)
(* SIGTERM only: an error that escapes the loop is an unhandled rejection, *)
(* which ends the Node process.  The evaluation script records that the    *)
(* server crashes when the background sync fails.                          *)
(***************************************************************************)
BackgroundSyncFails ==
    /\ proc = "running"
    /\ proc' = "exited"
    /\ exitCode' = Some(1)
    /\ listening' = FALSE
    /\ stdio' = FALSE
    /\ last' = [op |-> "background-sync-failed", served |-> listening \/ stdio]
    /\ UNCHANGED <<idleVars, cfg, limits, sessions, issued, serverOf, shutdowns>>

NextSync ==
    \/ StartServe
    \/ \E pathname \in {"/mcp", "/health"}, forwardedFor \in ForwardedFors,
          remoteAddress \in ClientIps :
         HttpRequest("POST", pathname, Some(<<"Bearer", "tok">>),
                     GetClientIp(forwardedFor, Some(remoteAddress)), None, FALSE)
    \/ \E d \in ClockSteps : AdvanceClock(d)
    \/ BackgroundSyncFails

SpecSync == InitRate /\ [][NextSync]_vars

(***************************************************************************)
(* Shutdown (mcp/index.ts gracefulShutdown, ContextMcpServer.stop,         *)
(* HttpTransport.stop).  Each signal starts a gracefulShutdown call, which *)
(* runs until its next await; the calls in progress resume one at a time.  *)
(***************************************************************************)
MaxSignals == 2
Signals == {"SIGINT", "SIGTERM"}

\* the session a Map iteration over the transports visits next: the one
\* that was inserted first
Oldest(sess, ids) ==
    ids[CHOOSE i \in 1..Len(ids) :
          ids[i] \in sess /\ \A j \in 1..(i - 1) : ids[j] \notin sess]

\* HttpTransport.stop from its loop on, up to the next await: close the next
\* session's transport and wait for it, or, when no session is left, clear
\* the map and call server.close(), which stops accepting connections and
\* hands ERR_SERVER_NOT_RUNNING to the callback of a server that was closed
\* before
StopTransports(sess, ids, isListening) ==
    IF sess # {}
    THEN [sessions |-> sess \ {Oldest(sess, ids)}, listening |-> isListening,
          at |-> "sessions", step |-> "closeSession"]
    ELSE [sessions |-> {}, listening |-> FALSE,
          at |-> IF isListening THEN "http" ELSE "httpErr", step |-> "stopAccepting"]

\* SIGINT or SIGTERM: gracefulShutdown calls mcpServer.stop(), which stops
\* the HTTP transport if there is one, else closes the stdio server
Signal(signal) ==
    LET run == StopTransports(sessions, issued, listening)
    IN /\ proc = "running"
       /\ Len(shutdowns) < MaxSignals
       /\ IF UseHttp
          THEN /\ sessions' = run.sessions
               /\ serverOf' = SessionServers(serverOf, issued, run.sessions)
               /\ listening' = run.listening
               /\ shutdowns' = Append(shutdowns, run.at)
               /\ stdio' = stdio
          ELSE /\ stdio' = FALSE
               /\ shutdowns' = Append(shutdowns, "stdio")
               /\ UNCHANGED <<sessions, serverOf, listening>>
       /\ last' = [op |-> "signal", signal |-> signal,
                   step |-> IF UseHttp THEN run.step ELSE "closeStdio",
                   inProgress |-> Len(shutdowns)]
       /\ UNCHANGED <<idleVars, proc, exitCode, cfg, limits, issued>>

\* a gracefulShutdown call resumes in the loop of HttpTransport.stop
ShutdownCloseSessions(i) ==
    LET run == StopTransports(sessions, issued, listening)
    IN /\ proc = "running"
       /\ i \in 1..Len(shutdowns)
       /\ shutdowns[i] = "sessions"
       /\ sessions' = run.sessions
       /\ serverOf' = SessionServers(serverOf, issued, run.sessions)
       /\ listening' = run.listening
       /\ shutdowns' = [shutdowns EXCEPT ![i] = run.at]
       /\ last' = [op |-> "shutdown", step |-> run.step]
       /\ UNCHANGED <<idleVars, proc, exitCode, stdio, cfg, limits, issued>>

\* the HTTP server has closed: HttpTransport.stop resolves and
\* ContextMcpServer.stop goes on to close the stdio server
ShutdownHttpClosed(i) ==
    /\ proc = "running"
    /\ i \in 1..Len(shutdowns)
    /\ shutdowns[i] = "http"
    /\ stdio' = FALSE
    /\ shutdowns' = [shutdowns EXCEPT ![i] = "stdio"]
    /\ last' = [op |-> "shutdown", step |-> "closeStdio"]
    /\ UNCHANGED <<idleVars, proc, exitCode, listening, cfg, limits, sessions, issued,
                   serverOf>>

\* mcpServer.stop() has resolved, or has rejected into the catch of
\* gracefulShutdown: process.exit(0)
ShutdownExit(i) ==
    /\ proc = "running"
    /\ i \in 1..Len(shutdowns)
    /\ shutdowns[i] \in {"stdio", "httpErr"}
    /\ proc' = "exited"
    /\ exitCode' = Some(0)
    /\ last' = [op |-> "shutdown", step |-> "exit"]
    /\ UNCHANGED <<idleVars, listening, stdio, cfg, limits, sessions, issued, serverOf,
                   shutdowns>>

(***************************************************************************)
(* SpecSession: the HTTP server, alone or next to stdio, or stdio alone,   *)
(* is sent authenticated requests on /mcp that open, use and delete        *)
(* sessions, and termination signals, while minutes pass.                  *)
(***************************************************************************)
SessionCfgs ==
    [transport : Transports, help : {FALSE}, token : {Some("tok")}, rateLimit : {None}]

InitSession == \E c \in SessionCfgs : Launched(c)

NextSession ==
    \/ StartServe
    \/ \E method \in Methods \ {"OPTIONS"}, body \in SessionHeaders :
         HttpRequest(method, "/mcp", Some(<<"Bearer", "tok">>), "10.0.0.1", body[1], body[2])
    \/ AdvanceClock(WindowMs)
    \/ \E signal \in Signals : Signal(signal)
    \/ \E i \in 1..MaxSignals : ShutdownCloseSessions(i)
    \/ \E i \in 1..MaxSignals : ShutdownHttpClosed(i)
    \/ \E i \in 1..MaxSignals : ShutdownExit(i)

SpecSession == InitSession /\ [][NextSession]_vars

(***************************************************************************)
(* Properties of the registry                                              *)
(***************************************************************************)
RecordsListing(repos, p) == {c \in DOMAIN repos : Includes(repos[c].knownPaths, p)}

\* C1: every path that appears in some record's knownPaths appears in the
\* knownPaths of exactly one record, whatever canonical ID the path resolved
\* to at each call.
C1_PathInOneRecord ==
    \A p \in Paths : Cardinality(RecordsListing(repositories, p)) <= 1

\* C4: resolve(p) reports isNewPathForExistingRepo exactly when p has no entry
\* in the path index and the canonical ID p resolves to has a record; then
\* found is true and the call leaves the number of records as it was.
C4_ResolveNewPath ==
    [][last'.op = "resolve" =>
         LET p == last'.path
         IN /\ last'.isNewPathForExistingRepo <=>
                 (/\ p \notin DOMAIN pathToCanonicalId
                  /\ HasRecord(repositories, ResolveIdentity(p).canonicalId))
            /\ last'.isNewPathForExistingRepo =>
                 /\ last'.found
                 /\ Cardinality(DOMAIN repositories') = Cardinality(DOMAIN repositories)
            /\ last'.found <=>
                 (\/ p \in DOMAIN pathToCanonicalId
                  \/ HasRecord(repositories, ResolveIdentity(p).canonicalId))]_vars

\* C4 witness: the worktree was resolved after the main checkout was
\* registered, and was reported as a new path of the existing repository.
C4_Witness ==
    /\ last.op = "resolve"
    /\ last.path = "/a/feat"
    /\ last.isNewPathForExistingRepo
    /\ \E c \in DOMAIN repositories : repositories[c].knownPaths = <<"/a/main">>

\* what register does to the paths of the record and to the other records
RegisterPathsEffect(p, id) ==
    /\ DOMAIN repositories' = DOMAIN repositories \cup {id}
    /\ \A c \in DOMAIN repositories \ {id} : repositories'[c] = repositories[c]
    /\ IF HasRecord(repositories, id)
       THEN /\ repositories'[id].knownPaths = PushNew(repositories[id].knownPaths, p)
            /\ repositories'[id].worktrees =
                 IF IsWorktreePath(p) THEN PushNew(repositories[id].worktrees, p)
                 ELSE repositories[id].worktrees
            /\ repositories'[id].canonicalId = repositories[id].canonicalId
            /\ repositories'[id].displayName = repositories[id].displayName
            /\ repositories'[id].remoteUrl = repositories[id].remoteUrl
            /\ repositories'[id].identitySource = repositories[id].identitySource
       ELSE /\ repositories'[id].knownPaths = <<p>>
            /\ repositories'[id].worktrees = IF IsWorktreePath(p) THEN <<p>> ELSE <<>>
            /\ repositories'[id].canonicalId = id

\* what register does to the four fields options may give, on an existing record
RegisterOptionsEffect(o, id) ==
    HasRecord(repositories, id) =>
        /\ repositories'[id].collectionName =
             IF IsSome(o.collectionName) THEN o.collectionName
             ELSE repositories[id].collectionName
        /\ repositories'[id].isIndexed =
             IF IsSome(o.isIndexed) THEN Val(o.isIndexed) ELSE repositories[id].isIndexed
        /\ repositories'[id].indexedFiles =
             IF IsSome(o.indexedFiles) THEN o.indexedFiles
             ELSE repositories[id].indexedFiles
        /\ repositories'[id].totalChunks =
             IF IsSome(o.totalChunks) THEN o.totalChunks ELSE repositories[id].totalChunks

\* C5 as stated: register on an existing record adds the path, changes only
\* the fields given in options (lastIndexed is not one of them) and keeps the
\* number of records; on a new canonical ID it creates exactly one record.
C5_OnlyGivenFieldsChange ==
    [][last'.op = "register" =>
         LET p == last'.path
             id == ResolveIdentity(p).canonicalId
         IN /\ RegisterPathsEffect(p, id)
            /\ RegisterOptionsEffect(last'.options, id)
            /\ HasRecord(repositories, id) =>
                 repositories'[id].lastIndexed = repositories[id].lastIndexed]_vars

\* C5 amended: as above, except that giving isIndexed = true also stamps
\* lastIndexed with the current time; lastIndexed is left alone otherwise.
C5_RegisterOverlay ==
    [][last'.op = "register" =>
         LET p == last'.path
             o == last'.options
             id == ResolveIdentity(p).canonicalId
         IN /\ RegisterPathsEffect(p, id)
            /\ RegisterOptionsEffect(o, id)
            /\ HasRecord(repositories, id) =>
                 repositories'[id].lastIndexed =
                   IF IsSome(o.isIndexed) /\ Val(o.isIndexed) THEN Some(now)
                   ELSE repositories[id].lastIndexed]_vars

\* C5 witness: the clone was registered, with only indexedFiles given, on the
\* indexed record that the worktree had created.
C5_Witness ==
    /\ last.op = "register"
    /\ last.existed
    /\ last.path = "/b/clone"
    /\ last.options = [NoOptions EXCEPT !.indexedFiles = Some(3)]
    /\ \E c \in DOMAIN repositories :
         /\ repositories[c].knownPaths = <<"/a/feat", "/b/clone">>
         /\ repositories[c].worktrees = <<"/a/feat">>
         /\ repositories[c].isIndexed
         /\ IsSome(repositories[c].collectionName)

\* C6: a record leaves the registry only in a removePath or a
\* removeByCanonicalId; removePath drops the record exactly when the removed
\* path was its last known path, and otherwise keeps it with its other paths.
C6_RemovalOnlyExplicit ==
    [][/\ (\E c \in DOMAIN repositories : c \notin DOMAIN repositories') =>
            last'.op \in {"removePath", "removeByCanonicalId"}
       /\ (last'.op = "removePath" /\ last'.ret) =>
            LET p == last'.path
                c == pathToCanonicalId[p]
            IN /\ HasRecord(repositories, c)
               /\ (c \notin DOMAIN repositories') <=> (repositories[c].knownPaths = <<p>>)
               /\ c \in DOMAIN repositories' =>
                    /\ repositories'[c].knownPaths = Without(repositories[c].knownPaths, p)
                    /\ Elems(repositories'[c].knownPaths) =
                         Elems(repositories[c].knownPaths) \ {p}
               /\ \A d \in DOMAIN repositories \ {c} :
                    d \in DOMAIN repositories' /\ repositories'[d] = repositories[d]
       /\ (last'.op = "removePath" /\ ~last'.ret) => repositories' = repositories]_vars

\* C6 witness: the worktree path was removed from a record that also held
\* the main checkout, and the record is still there with the main checkout.
C6_Witness ==
    /\ last.op = "removePath"
    /\ last.ret
    /\ last.path = "/a/feat"
    /\ Cardinality(DOMAIN repositories) = 1
    /\ \E c \in DOMAIN repositories :
         repositories[c].knownPaths = <<"/a/main">> /\ repositories[c].worktrees = <<>>

WorktreesWithin(repos) ==
    \A c \in DOMAIN repos : Elems(repos[c].worktrees) \subseteq Elems(repos[c].knownPaths)

\* C7: in the registry and in the snapshot store (in memory and as saved),
\* every path in a record's worktrees is also in that record's knownPaths.
C7_WorktreesInKnownPaths ==
    /\ WorktreesWithin(repositories)
    /\ WorktreesWithin(snapRepositories)
    /\ (IsSome(file) /\ Val(file).formatVersion = "v3") =>
         WorktreesWithin(Val(file).repositories)

\* C7 witness: a v3 file listing the worktree /a/feat was loaded after
\* /a/feat had gone from the disk, and the main checkout is what is left.
C7_Witness ==
    /\ last.op = "construct"
    /\ last.format = "v3"
    /\ "/a/feat" \notin exists
    /\ \E c \in DOMAIN snapRepositories :
         /\ snapRepositories[c].knownPaths = <<"/a/main">>
         /\ snapRepositories[c].worktrees = <<>>
         /\ repositories[c].knownPaths = <<"/a/main">>

(***************************************************************************)
(* Properties of index_codebase                                            *)
(***************************************************************************)
InCriticalSection(t) == pc[t] \in {"locked", "indexing"}

\* C2: for every canonical ID, at most one call is inside the section that
\* writes the registry for that ID, and at most one indexing task for that
\* ID is running, however the calls of the sessions and the sync loop
\* interleave.
C2_OneWriterPerCanonicalId ==
    \A id \in Ids :
      /\ Cardinality({t \in Tasks : InCriticalSection(t) /\ req[t].canonicalId = id}) <= 1
      /\ Cardinality({t \in Tasks : pc[t] = "indexing" /\ req[t].canonicalId = id}) <= 1
      /\ \A t \in Tasks :
           (InCriticalSection(t) /\ req[t].canonicalId = id) => lockHolder[id] = t

\* C2 witness: one call indexes a repository while two more calls for the
\* same canonical ID wait for it.
C2_Witness ==
    /\ pc["http"] = "indexing"
    /\ pc["stdio"] = "waiting"
    /\ pc["sync"] = "waiting"
    /\ req["stdio"].canonicalId = req["http"].canonicalId
    /\ req["sync"].canonicalId = req["http"].canonicalId
    /\ req["stdio"].path # req["http"].path

\* the repository of path p is indexed, through paths that do not include p
IndexedThroughAnotherPath(p) ==
    LET id == ResolveIdentity(p).canonicalId
    IN /\ HasRecord(repositories, id)
       /\ repositories[id].isIndexed
       /\ ~Includes(repositories[id].knownPaths, p)
       /\ p \notin DOMAIN pathToCanonicalId

\* C3: when index_codebase without force reaches the gate for a path whose
\* repository is indexed through another path, indexing does not start, the
\* vector store keeps the collections it had, the number of records stays,
\* and the path becomes a known path of the existing record.
C3_AliasInsteadOfIndexing ==
    [][\A t \in Tasks :
         (/\ pc[t] = "locked" /\ pc'[t] # "locked"
          /\ ~req[t].force
          /\ IndexedThroughAnotherPath(req[t].path)) =>
           LET p == req[t].path
               id == ResolveIdentity(p).canonicalId
           IN /\ pc'[t] = "idle"
              /\ last'.result = "already-indexed"
              /\ collections' = collections
              /\ DOMAIN repositories' = DOMAIN repositories
              /\ Includes(repositories'[id].knownPaths, p)
              /\ repositories'[id].isIndexed
              /\ repositories'[id].collectionName = repositories[id].collectionName
              /\ IsWorktreePath(p) => Includes(repositories'[id].worktrees, p)]_vars

\* C3 witness: the worktree was sent to index_codebase without force after
\* the main checkout had been indexed, and came back as an alias: one
\* record, both paths, one collection.
C3_Witness ==
    /\ last.op = "index_codebase"
    /\ last.result = "already-indexed"
    /\ last.path = "/a/feat"
    /\ ~last.force
    /\ Cardinality(DOMAIN repositories) = 1
    /\ \E id \in DOMAIN repositories :
         /\ repositories[id].knownPaths = <<"/a/main", "/a/feat">>
         /\ repositories[id].worktrees = <<"/a/feat">>
    /\ Cardinality(collections) = 1

(***************************************************************************)
(* Properties of the HTTP front end                                        *)
(***************************************************************************)
\* the header is `Bearer <token>` with the server's token
CarriesServerToken(authHeader) ==
    /\ IsSome(authHeader)
    /\ Len(Val(authHeader)) = 2
    /\ Val(authHeader)[1] \in {"Bearer", "BEARER"}
    /\ IsSome(cfg.token)
    /\ Val(authHeader)[2] = Val(cfg.token)

\* the answer to a request that must not get in
Refused(response) ==
    /\ response.status = 401
    /\ response.wwwAuthenticate = Some(WwwAuthenticate)
    /\ response.reached = "none"

\* C8 as stated: a request to a path other than /health reaches the MCP
\* handler only with `Authorization: Bearer <token>`; any request without it
\* is answered 401 with WWW-Authenticate: Bearer, reaches no handler and
\* touches no session.
C8_EveryRequestNeedsToken ==
    [][(last'.op = "http" /\ last'.pathname # "/health") =>
         /\ last'.response.reached = "mcp" => CarriesServerToken(last'.authHeader)
         /\ ~CarriesServerToken(last'.authHeader) =>
              (Refused(last'.response) /\ sessions' = sessions)]_vars

\* C8 amended: the same, for every request that is not an OPTIONS preflight;
\* a preflight is answered 204 before authentication, and reaches no handler
\* and no session either.
C8_NonPreflightNeedsToken ==
    [][(last'.op = "http" /\ last'.pathname # "/health") =>
         /\ last'.response.reached = "mcp" => CarriesServerToken(last'.authHeader)
         /\ (~CarriesServerToken(last'.authHeader) /\ last'.method # "OPTIONS") =>
              (Refused(last'.response) /\ sessions' = sessions)
         /\ last'.method = "OPTIONS" =>
              (/\ last'.response.status = 204
               /\ last'.response.reached = "none"
               /\ sessions' = sessions)]_vars

\* C8 witness: a POST to /mcp with a wrong token was refused while a
\* session was open.
C8_Witness ==
    /\ last.op = "http"
    /\ last.method = "POST"
    /\ last.pathname = "/mcp"
    /\ last.authHeader = Some(<<"Bearer", "wrong">>)
    /\ last.response.status = 401
    /\ sessions # {}

BlankToken(token) == token \in {None, Some(""), Some("  ")}

\* C9: when the server is started (not --help) with the http or both
\* transport and MCP_AUTH_TOKEN unset, empty or blank, the HTTP server never
\* listens and the process ends with status 2; started with stdio alone it
\* runs, whatever the token.
C9_TokenRequiredForHttp ==
    /\ (cfg.transport \in {"http", "both"} /\ ~cfg.help /\ BlankToken(cfg.token)) =>
         /\ ~listening
         /\ ~stdio
         /\ proc # "running"
         /\ proc = "exited" => exitCode = Some(2)
    /\ (cfg.transport = "stdio" /\ ~cfg.help /\ proc # "starting") =>
         (proc = "running" /\ stdio /\ ~listening /\ exitCode = None)

\* C9 witness: started with --transport both and a blank token, the process
\* has exited with status 2.
C9_Witness ==
    /\ cfg.transport = "both"
    /\ cfg.token = Some("  ")
    /\ ~cfg.help
    /\ proc = "exited"
    /\ exitCode = Some(2)
    /\ ~listening

\* C10: the requests of one source admitted in one window never exceed the
\* budget, and a request over the budget is answered 429 with Retry-After
\* between 1 and 60 and the X-RateLimit headers.
C10_AtMostBudgetPerWindow ==
    (last.op = "http" /\ last.response.checked) =>
       LET budget == RequestsPerMinute(cfg)
           entry == limits[last.clientIp]
       IN /\ last.response.status # 429 => entry.count <= budget
          /\ entry.count > budget =>
               /\ last.response.status = 429
               /\ IsSome(last.response.retryAfter)
               /\ Val(last.response.retryAfter) \in 1..60
               /\ last.response.rateLimitLimit = Some(budget)
               /\ last.response.rateLimitRemaining = Some(0)
               /\ IsSome(last.response.rateLimitReset)

(***************************************************************************)
(* Properties of the rate limiter                                          *)
(***************************************************************************)
\* C11: a request of a source to a limited path that arrives when the
\* window of the source has elapsed (one minute after it began), or after the
\* sweep has dropped the elapsed window, is admitted and opens a new window,
\* however many requests were counted in the old one.
C11_AdmittedAfterWindow ==
    [][(/\ last'.op = "http"
        /\ last'.pathname # "/health"
        /\ (IsSome(last'.entry) =>
              now >= (Val(last'.entry).resetTime - WindowMs) + 60000)) =>
         /\ last'.response.status # 429
         /\ last'.response.reached = "mcp"
         /\ last'.response.retryAfter = None
         /\ limits'[last'.clientIp] = [count |-> 1, resetTime |-> now + WindowMs]]_vars

\* C11 witness: with a budget of 1 a source was counted three times in its
\* window (two requests rejected), and its request after the window was
\* admitted.
C11_Witness ==
    /\ last.op = "http"
    /\ cfg.rateLimit = Some("1")
    /\ IsSome(last.entry)
    /\ Val(last.entry).count = 3
    /\ now >= Val(last.entry).resetTime
    /\ last.response.reached = "mcp"
    /\ limits[last.clientIp].count = 1

\* C12: what a request of one source is answered (admitted or 429, and the
\* remaining budget) is determined by that source's own entry, the clock and
\* the budget, and the request changes no other source's entry.
C12_SourcesIndependent ==
    [][(last'.op = "http" /\ last'.pathname # "/health") =>
         LET ip == last'.clientIp
             budget == RequestsPerMinute(cfg)
             fresh == ~IsSome(last'.entry) \/ now >= Val(last'.entry).resetTime
             count == IF fresh THEN 1 ELSE Val(last'.entry).count + 1
             admitted == fresh \/ count <= budget
         IN /\ (last'.response.status # 429) <=> admitted
            /\ last'.response.rateLimitRemaining =
                 Some(IF admitted THEN budget - count ELSE 0)
            /\ limits'[ip].count = count
            /\ \A other \in ClientIps \ {ip} :
                 /\ (other \in DOMAIN limits') <=> (other \in DOMAIN limits)
                 /\ other \in DOMAIN limits => limits'[other] = limits[other]]_vars

\* C12 witness: 10.0.0.1 was admitted with budget left while 10.0.0.2 was
\* over its budget in a window that is still open.
C12_Witness ==
    /\ last.op = "http"
    /\ last.clientIp = "10.0.0.1"
    /\ last.response.reached = "mcp"
    /\ cfg.rateLimit = Some("2")
    /\ last.response.rateLimitRemaining = Some(1)
    /\ "10.0.0.2" \in DOMAIN limits
    /\ limits["10.0.0.2"].count > RequestsPerMinute(cfg)
    /\ now < limits["10.0.0.2"].resetTime

\* C13: while the HTTP server listens, GET /health is answered 200 by the
\* health handler whatever the Authorization header and the caller's entry in
\* the rate-limit table, and leaves the rate-limit table as it was.
C13_HealthAlwaysOk ==
    [][(last'.op = "http" /\ last'.method = "GET" /\ last'.pathname = "/health") =>
         /\ last'.response.status = 200
         /\ last'.response.reached = "health"
         /\ ~last'.response.checked
         /\ last'.response.rateLimitRemaining = None
         /\ limits' = limits
         /\ sessions' = sessions]_vars

\* C13 witness: a caller that is over its budget asked for /health without
\* credentials and was answered 200.
C13_Witness ==
    /\ last.op = "http"
    /\ last.method = "GET"
    /\ last.pathname = "/health"
    /\ last.authHeader = None
    /\ last.response.status = 200
    /\ last.clientIp \in DOMAIN limits
    /\ limits[last.clientIp].count > RequestsPerMinute(cfg)
    /\ now < limits[last.clientIp].resetTime

(***************************************************************************)
(* Properties of the sessions                                              *)
(***************************************************************************)
\* the session IDs that were generated and are no longer in the map
ClosedSessions == Elems(issued) \ sessions

C17_ShutdownOrder ==
    [][/\ (last'.op \in {"signal", "shutdown"} /\ last'.step = "closeSession") =>
            ~listening
       /\ (last'.op = "shutdown" /\ last'.step = "exit") =>
            /\ ~listening'
            /\ sessions' = {}
            /\ file' = SnapshotFile(snapRepositories')]_vars

\* C18: a signal that arrives while a shutdown is in progress ends the
\* process at once.
C18_SecondSignalExits ==
    [][(last'.op = "signal" /\ shutdowns # <<>>) => proc' = "exited"]_vars

(***************************************************************************)
(* Properties of the legacy views                                          *)
(***************************************************************************)
\* the entries <<path, info>> of a v1 or v2 file, a v1 file giving each of
\* its indexed paths the minimal indexed info and each indexing path its
\* progress
RECURSIVE IndexedAsEntries(_, _)
IndexedAsEntries(paths, t) ==
    IF paths = <<>> THEN <<>>
    ELSE <<<<Head(paths), InfoIndexed(0, 0, t)>>>> \o IndexedAsEntries(Tail(paths), t)

OriginalEntries(f, t) ==
    IF f.formatVersion = "v2" THEN f.codebases
    ELSE IndexedAsEntries(f.indexedCodebases, t)

OriginalIndexing(f) ==
    IF f.formatVersion = "v2"
    THEN [p \in {e[1] : e \in {x \in Elems(f.codebases) : x[2].status = "indexing"}} |->
            OrZero((CHOOSE e \in Elems(f.codebases) : e[1] = p)[2].indexingPercentage)]
    ELSE IF "indexingCodebases" \in DOMAIN f THEN f.indexingCodebases ELSE EmptyMap

Restrict(map, keys) == [k \in DOMAIN map \cap keys |-> map[k]]

\* C19: after the server has started over a v1 or v2 file, the file is a v3
\* file and, for the paths that still exist, the indexed paths read back from
\* it, the indexing paths with their progress and the CodebaseInfo of every
\* path are those of the file that was loaded.
C19_MigrationKeepsViews ==
    (last.op = "construct" /\ last.format \in {"v1", "v2"}) =>
       LET f == Val(last.loaded)
           entries == SelectSeq(OriginalEntries(f, now), LAMBDA e : e[1] \in exists)
       IN /\ IsSome(file)
          /\ Val(file).formatVersion = "v3"
          /\ Elems(GetIndexedCodebases(file)) =
               {e[1] : e \in {x \in Elems(entries) : x[2].status = "indexed"}}
          /\ indexingCodebases = Restrict(OriginalIndexing(f), exists)
          /\ DOMAIN codebaseInfoMap =
               {e[1] : e \in Elems(entries)} \cup DOMAIN Restrict(OriginalIndexing(f), exists)
          /\ \A e \in Elems(entries) :
               /\ e[1] \in DOMAIN codebaseInfoMap
               /\ codebaseInfoMap[e[1]] = e[2]

\* the status the v3 map gives a path: that of the default branch of the
\* repository that lists it
StatusInRepositories(repos, p) ==
    {repos[id].branches[repos[id].defaultBranch].status :
       id \in {i \in DOMAIN repos : /\ Includes(repos[i].knownPaths, p)
                                    /\ repos[i].defaultBranch \in DOMAIN repos[i].branches}}

\* C20: once the store is loaded, a path is in the indexed list, in the
\* indexing map, or has a CodebaseInfo of a given status exactly when it is a
\* known path of a repository of the v3 map whose default branch has that
\* status.
C20_ViewsFollowRepositories ==
    phase = "running" =>
       \A p \in Paths :
          /\ Includes(indexedCodebases, p) <=>
               ("indexed" \in StatusInRepositories(snapRepositories, p))
          /\ (p \in DOMAIN indexingCodebases) <=>
               ("indexing" \in StatusInRepositories(snapRepositories, p))
          /\ \A status \in {"indexed", "indexing", "indexfailed"} :
               (GetCodebaseStatus(codebaseInfoMap, p) = status) <=>
                 (status \in StatusInRepositories(snapRepositories, p))

(***************************************************************************)
(* SpecSave: the handlers of the stdio transport, of the HTTP transport    *)
(* and of the sync loop change the snapshot store and save it, the save    *)
(* followed at the grain of the file system: writeFileSync opens the file, *)
(* which truncates it, and returns when the text is written.               *)
(***************************************************************************)
\* a write that other tasks may interleave with
InterleavedCall(t) == TRUE

\* saveCodebaseSnapshot has no await and writes with fs.writeFileSync: from
\* its first statement to its return no other task of the process runs
SynchronousCall(t) == \A u \in Tasks \ {t} : pc[u] # "saving"

SaveOpen(t) ==
    /\ phase = "running"
    /\ SynchronousCall(t)
    /\ pc[t] = "idle"
    /\ pc' = [pc EXCEPT ![t] = "saving"]
    /\ file' = Some(FileUnparsable)
    /\ last' = [op |-> "writeFileSync", task |-> t]
    /\ UNCHANGED <<envVars, registryVars, shared, phase, snapRepositories,
                   snapPathToCanonicalId, legacyVars, req, lockHolder, collections,
                   calls, migratorVars, search, httpVars>>

SaveClose(t) ==
    /\ pc[t] = "saving"
    /\ pc' = [pc EXCEPT ![t] = "idle"]
    /\ file' = SnapshotFile(snapRepositories)
    /\ last' = [op |-> "saveCodebaseSnapshot", task |-> t]
    /\ UNCHANGED <<envVars, registryVars, shared, phase, snapRepositories,
                   snapPathToCanonicalId, legacyVars, req, lockHolder, collections,
                   calls, migratorVars, search, httpVars>>

InitSave ==
    /\ remote = [r \in Repos |-> NoRemote]
    /\ git = GitHealthy
    /\ now = 0
    /\ exists = Paths
    /\ repositories = EmptyMap
    /\ pathToCanonicalId = EmptyMap
    /\ shared = {}
    /\ phase = "new"
    /\ file \in {None, Some(FileV3One)}
    /\ StoreIsEmpty
    /\ HandlersIdle
    /\ HttpOff
    /\ last = NoCall

NextSave ==
    \/ Construct
    \/ \E t \in Tasks, codebasePath \in ViewPaths, bs \in BranchStates :
         SynchronousCall(t) /\ UpdateRepositoryState(codebasePath, "default", bs)
    \/ \E t \in Tasks : SaveOpen(t)
    \/ \E t \in Tasks : SaveClose(t)

SpecSave == InitSave /\ [][NextSave]_vars

(***************************************************************************)
(* Properties of the tool handlers over the snapshot store                 *)
(***************************************************************************)
\* what a process that starts now would load from the snapshot file
FreshProcess == LoadCodebaseSnapshot(file, exists, remote, now)

PathStatuses(infoMap) == [p \in DOMAIN infoMap |-> infoMap[p].status]

\* the call that ran last was a mutating operation running to its end
MutationCompleted ==
    \/ last.op \in {"index_codebase:done", "index_codebase:failed"}
    \/ last.op = "index_codebase" /\ last.result = "already-indexed"
    \/ last.op = "clear_index" /\ last.found

\* C21: when a mutating operation has completed, a process that loads the
\* snapshot file gets the repositories, the known paths and the per-path
\* statuses that the snapshot store of the writing process holds in memory.
C21_DiskMatchesMemory ==
    (phase = "running" /\ MutationCompleted) =>
       /\ DOMAIN FreshProcess.repositories = DOMAIN snapRepositories
       /\ \A id \in DOMAIN snapRepositories :
            id \in DOMAIN FreshProcess.repositories =>
              FreshProcess.repositories[id].knownPaths = snapRepositories[id].knownPaths
       /\ PathStatuses(FreshProcess.codebaseInfoMap) = PathStatuses(codebaseInfoMap)

\* the default branch of the repository of path p in the snapshot store
BranchOf(repos, p) ==
    LET id == ResolveIdentity(p).canonicalId
    IN IF id \in DOMAIN repos /\ repos[id].defaultBranch \in DOMAIN repos[id].branches
       THEN Some(repos[id].branches[repos[id].defaultBranch])
       ELSE None

ReportedIndexing(repos, infoMap, p) ==
    /\ IsSome(BranchOf(repos, p))
    /\ Val(BranchOf(repos, p)).status = "indexing"
    /\ IsSome(Val(BranchOf(repos, p)).indexingPercentage)
    /\ GetCodebaseStatus(infoMap, p) = "indexing"
    /\ IsSome(infoMap[p].indexingPercentage)

ReportedIndexed(repos, infoMap, records, p) ==
    /\ IsSome(BranchOf(repos, p))
    /\ Val(BranchOf(repos, p)).status = "indexed"
    /\ Val(BranchOf(repos, p)).indexedFiles = FinalFiles
    /\ Val(BranchOf(repos, p)).totalChunks = FinalChunks
    /\ GetCodebaseStatus(infoMap, p) = "indexed"
    /\ infoMap[p].indexedFiles = Some(FinalFiles)
    /\ infoMap[p].totalChunks = Some(FinalChunks)
    /\ \E id \in DOMAIN records :
         /\ Includes(records[id].knownPaths, p)
         /\ records[id].isIndexed
         /\ records[id].indexedFiles = Some(FinalFiles)
         /\ records[id].totalChunks = Some(FinalChunks)

ReportedFailed(repos, infoMap, p) ==
    /\ IsSome(BranchOf(repos, p))
    /\ Val(BranchOf(repos, p)).status = "indexfailed"
    /\ Val(BranchOf(repos, p)).errorMessage = Some(IndexError)
    /\ GetCodebaseStatus(infoMap, p) = "indexfailed"
    /\ infoMap[p].errorMessage = Some(IndexError)

C25_ClearRemovesEverywhere ==
    (last.op = "clear_index" /\ last.found) =>
       /\ ~HasRecord(repositories, last.canonicalId)
       /\ \A p \in Elems(last.knownPaths) :
            /\ ~Includes(indexedCodebases, p)
            /\ p \notin DOMAIN indexingCodebases
            /\ GetCodebaseStatus(codebaseInfoMap, p) = "not_found"
            /\ ~Includes(GetIndexedCodebases(file), p)
       /\ last.canonicalId \notin DOMAIN Val(file).repositories

(***************************************************************************)
(* Properties of loading the snapshot file                                 *)
(***************************************************************************)
\* the pairs <<path, status>> a snapshot file records
RecordedStatuses(f) ==
    IF f.formatVersion = "v3"
    THEN UNION {{<<p, s>> : s \in StatusInRepositories(f.repositories, p)} :
                  p \in UNION {Elems(f.repositories[id].knownPaths) :
                                 id \in DOMAIN f.repositories}}
    ELSE IF f.formatVersion = "v2"
    THEN {<<e[1], e[2].status>> : e \in Elems(f.codebases)}
    ELSE {<<p, "indexed">> : p \in Elems(f.indexedCodebases)}
         \cup {<<p, "indexing">> : p \in DOMAIN OriginalIndexing(f)}

\* every path the loaded state mentions
LoadedPaths ==
    DOMAIN codebaseInfoMap \cup Elems(indexedCodebases) \cup DOMAIN indexingCodebases
    \cup DOMAIN snapPathToCanonicalId
    \cup UNION {Elems(snapRepositories[id].knownPaths) : id \in DOMAIN snapRepositories}

\* a file that loads without an exception and records a path that is gone
SomePathsMissing(f) ==
    /\ f # None
    /\ ~LoadThrows(f)
    /\ \E e \in RecordedStatuses(Val(f)) : e[1] \notin exists

\* C22: after the server has started over a sound file of any format that
\* records paths that no longer exist, no missing path is in the loaded
\* state, every recorded path that still exists has the status the file
\* recorded for it, and the file is a v3 file holding the loaded state.
C22_MissingPathsDropped ==
    (last.op = "construct" /\ SomePathsMissing(last.loaded)) =>
       /\ LoadedPaths \subseteq exists
       /\ \A e \in RecordedStatuses(Val(last.loaded)) :
            e[1] \in exists => GetCodebaseStatus(codebaseInfoMap, e[1]) = e[2]
       /\ file = SnapshotFile(snapRepositories)

\* C23: after the server has started over a file whose loading throws, the
\* snapshot store and the registry built from it are empty.
C23_CorruptFileLoadsEmpty ==
    (last.op = "construct" /\ LoadThrows(last.loaded)) =>
       /\ snapRepositories = EmptyMap
       /\ snapPathToCanonicalId = EmptyMap
       /\ indexedCodebases = <<>>
       /\ indexingCodebases = EmptyMap
       /\ codebaseFileCount = EmptyMap
       /\ codebaseInfoMap = EmptyMap
       /\ repositories = EmptyMap

\* C26: once the store is loaded, every repository of the v3 map that has a
\* branch has its defaultBranch among the keys of its branches.
C26_DefaultBranchIsABranch ==
    phase = "running" =>
       \A id \in DOMAIN snapRepositories :
          snapRepositories[id].branches # EmptyMap =>
             snapRepositories[id].defaultBranch \in DOMAIN snapRepositories[id].branches

C28_LegacyNameWhileItExists ==
    [][last'.op = "resolveCollectionName" =>
         LET r == last'.result
             legacyName == GenerateLegacyCollectionName(last'.path)
             canonicalName ==
                 GenerateCanonicalCollectionName(ResolveIdentity(last'.path).canonicalId)
         IN /\ legacyName \in collections =>
                 /\ r.collectionName = legacyName
                 /\ r.isLegacy
                 /\ \E i \in DOMAIN mappings' :
                      /\ mappings'[i].oldName = legacyName
                      /\ mappings'[i].newName = canonicalName
                      /\ mappings'[i].path = last'.path
                 /\ migrationFile' = Some(mappings')
            /\ legacyName \notin collections =>
                 /\ r.collectionName = canonicalName
                 /\ ~r.isLegacy
                 /\ mappings' = mappings
            /\ (last.op = "resolveCollectionName" /\ last.path = last'.path) =>
                 r = last.result]_vars

\* C28 witness: the legacy and the canonical collection of /a/feat both
\* exist, and the call for it, repeated, has returned the legacy name
C28_Witness ==
    /\ last.op = "resolveCollectionName"
    /\ last.path = "/a/feat"
    /\ last.result.isLegacy
    /\ last.result.canonicalName \in collections
    /\ Len(mappings) = 2
    /\ mappings[2].path = "/a/feat"

\* C29: a mapping that is recorded as migrated is not among the unmigrated
\* mappings after any further call.
C29_MigratedStaysMigrated ==
    [][\A i \in DOMAIN mappings :
         mappings[i].migrated =>
            \A j \in DOMAIN GetUnmigratedMappings(mappings') :
               GetUnmigratedMappings(mappings')[j].oldName # mappings[i].oldName]_vars

(***************************************************************************)
(* Properties of search_all                                                *)
(***************************************************************************)
\* the arrangements of a set of collections in a row
Orders(cs) ==
    {order \in UNION {[1..n -> cs] : n \in {Cardinality(cs)}} :
       \A i, j \in DOMAIN order : i # j => order[i] # order[j]}

HitsOf(cs) == UNION {Elems(Take(search.hits[c], search.limit)) : c \in cs}

\* C31: when search_all has returned, it has returned results: those of the
\* collections that answered, merged, whatever the other collections did;
\* and every collection that did not answer is named in the summary, under
\* collectionsFailed if it threw and under collectionsSkippedByTimeout if
\* it was cancelled.
C31_FailuresAreIsolated ==
    IsSome(search.result) =>
       LET result == Val(search.result)
           summary == Val(search.summary)
           answered == Elems(search.arrived)
       IN /\ Elems(result) \subseteq HitsOf(answered)
          /\ \A x \in HitsOf(answered) :
               \/ x \in Elems(result)
               \/ /\ Len(result) = search.limit
                  /\ \A i \in DOMAIN result : ~ComesBefore(x, result[i])
          /\ summary.collectionsFailed = search.failed
          /\ summary.collectionsSkippedByTimeout = search.skipped
          /\ SearchCollections \ answered = search.failed \cup search.skipped
          /\ search.failed \cap search.skipped = {}
          /\ summary.collectionsQueried = Cardinality(SearchCollections)

\* C31 witness: one collection threw, one was cancelled after 5 seconds, and
\* the call has returned the two results of the third
C31_Witness ==
    /\ IsSome(search.result)
    /\ search.failed = {"c1"}
    /\ search.skipped = {"c3"}
    /\ search.elapsed = PerCollectionBudget
    /\ Len(Val(search.result)) = 2

\* C32: a call never runs beyond the global budget, a per-collection task
\* is never pending beyond its own budget, and no task is pending once the
\* call has returned.
C32_BudgetsAreKept ==
    /\ search.elapsed <= GlobalBudget
    /\ search.pending # {} => search.elapsed <= search.started + PerCollectionBudget
    /\ IsSome(search.result) => search.pending = {}

\* C32 witness: the fan-out began at second 12, two tasks were still pending
\* at second 15 and were cancelled with the call's return
C32_Witness ==
    /\ IsSome(search.result)
    /\ search.started = 12
    /\ search.elapsed = GlobalBudget
    /\ Cardinality(search.skipped) = 2
    /\ Len(search.arrived) = 1

WorktreeOf(p1, p2) == IsWorktreePath(p1) /\ ~IsWorktreePath(p2) /\ RepoOf(p1) = RepoOf(p2)

\* C34: resolveIdentity of a worktree returns the canonicalId that
\* resolveIdentity returns for the repository the worktree belongs to.
C34_WorktreeSharesCanonicalId ==
    \A p2 \in Paths :
        (last.op = "resolveIdentity" /\ WorktreeOf(last.path, p2))
            => last.result.canonicalId = ResolveIdentity(p2).canonicalId

\* C35: the SSH forms and the HTTPS form of one repository URL normalize to
\* the same host/owner/name, without the .git suffix and the credentials
\* and with the path otherwise intact.
C35_SshAndHttpsNormalizeAlike ==
    last.op = "normalizeGitUrl"
        => /\ last.ssh = last.https
           /\ last.sshUrl = last.https
           /\ last.https = Some(Join(last.url.host \o <<"/">> \o last.url.path))
C35_Witness ==
    /\ last.op = "normalizeGitUrl"
    /\ last.url.dotGit
    /\ last.url.creds # <<>>
    /\ Len(last.url.path) > 3
    /\ IsSome(last.ssh)

\* the source resolveIdentity should use in a checkout: the origin URL when
\* git reports one that normalizes, else the root commit when git reports
\* one, else the path
ExpectedIdentity(p) ==
    LET origin == IF "config" \in git.fails[p] THEN NoRemote ELSE remote[RepoOf(p)]
        commit == IF "rev-list" \in git.fails[p] THEN NoCommits ELSE git.root[p]
    IN IF IsSome(NormalizeGitUrl(origin))
       THEN [source |-> "remote-url", id |-> CanonicalIdFromUrl(Val(NormalizeGitUrl(origin)))]
       ELSE IF commit # NoCommits
       THEN [source |-> "initial-commit", id |-> CanonicalIdFromCommit(commit)]
       ELSE [source |-> "path-hash", id |-> CanonicalIdFromPath(p)]

\* C36: resolveIdentity always returns an identity, derived from the first
\* source that succeeds: the normalized origin URL, else the root commit, else
\* the path; a failed git command and a repository without commits fall
\* through to the next source.
C36_FirstSourceThatSucceeds ==
    last.op = "resolveIdentity"
        => /\ last.result.identitySource = ExpectedIdentity(last.path).source
           /\ last.result.canonicalId = ExpectedIdentity(last.path).id
C36_Witness ==
    /\ last.op = "resolveIdentity"
    /\ last.result.identitySource = "path-hash"
    /\ "config" \in git.fails[last.path]
    /\ remote[RepoOf(last.path)] = OriginUrl
    /\ git.root[last.path] = NoCommits


(***************************************************************************)
(* The background sync loop                                                *)
(***************************************************************************)
\* C37: a failure of the background sync loop leaves the service running and
\* serving: the process does not exit and its transports stay open.
C37_SyncFailureIsContained ==
    last.op = "background-sync-failed"
        => /\ proc = "running"
           /\ exitCode = None
           /\ last.served => (listening \/ stdio)


(***************************************************************************)
(* The registry's path index                                               *)
(***************************************************************************)
\* the canonical IDs that a record or an entry of the path index names
NamedIds == DOMAIN repositories \cup {pathToCanonicalId[p] : p \in DOMAIN pathToCanonicalId}

\* C38: the path index maps a path to a canonical ID exactly when the record
\* of that ID exists and lists the path in knownPaths; in particular no path
\* is left in the index or in a record once removePath or
\* removeByCanonicalId has taken it out of the other.
C38_IndexAgreesWithRecords ==
    \A p \in Paths : \A c \in NamedIds :
        (p \in DOMAIN pathToCanonicalId /\ pathToCanonicalId[p] = c)
            <=> (HasRecord(repositories, c) /\ Includes(repositories[c].knownPaths, p))


(***************************************************************************)
(* One status per path in the snapshot store                               *)
(***************************************************************************)
\* C39: no path is in the indexed list and in the indexing map at once, and
\* getCodebaseStatus answers 'indexed' for the paths of the list and
\* 'indexing' for the paths of the map.
C39_OneStatusPerPath ==
    \A p \in Paths :
        /\ ~(Includes(indexedCodebases, p) /\ p \in DOMAIN indexingCodebases)
        /\ Includes(indexedCodebases, p) => GetCodebaseStatus(codebaseInfoMap, p) = "indexed"
        /\ p \in DOMAIN indexingCodebases => GetCodebaseStatus(codebaseInfoMap, p) = "indexing"


(***************************************************************************)
(* Authentication before rate limiting                                     *)
(***************************************************************************)
\* C40: a request that is answered 401 leaves the rate limiter as it was:
\* it creates no entry and adds to no count, for its source or any other.
C40_RejectedRequestsAreFree ==
    [][(last'.op = "http" /\ last'.response.status = 401) => limits' = limits]_vars
C40_Witness ==
    /\ last.op = "http"
    /\ last.response.status = 401
    /\ ShouldLimit(last.pathname)
    /\ last.clientIp \in DOMAIN limits
    /\ limits[last.clientIp].count >= 1

====
